---------------------------- MODULE Spec2Model ----------------------------
(***************************************************************************)
(* State-machine model of the AtScale Gatling controller                   *)
(* (src/atscalewrapper/core.py, gui.py, cli.py and the archived single-    *)
(* file build src/archive/atscale-gatling-gui.py).                         *)
(*                                                                         *)
(* Text is modelled as a sequence of atoms: an atom is either one of the   *)
(* characters the code inspects (" ", ":", "_") or a chunk of text that    *)
(* holds none of them ("Cat1", ".jdbc.url=").  A line of the properties    *)
(* file is such a sequence, without its newline.                           *)
(***************************************************************************)
EXTENDS Integers, Sequences, FiniteSets, TLC

VARIABLES
    build,            \* which build runs: "package" (atscalewrapper), "archive" or "v1"
    cfg,              \* AtScaleGatlingCore.cfg: the configuration read at construction
    props,            \* working_dir/config/systems.properties: [exists, lines]
    wlast,            \* the last call of write_systems_properties_with_csv, its outcome,
                      \* and whether it repeated the call before it
    image,            \* the docker image: "present", "pullable" or "missing"
    is_running,       \* AtScaleGatlingCore.is_running
    current_executor, \* AtScaleGatlingCore.current_executor ("None" before the first run)
    current_process,  \* AtScaleGatlingCore.current_process: a process id, 0 for None
    procs,            \* the external processes spawned so far, by process id
    th,               \* the threads calling run_executor: position, arguments, result
    ncalls,           \* run_executor calls made so far
    sentinel,         \* working_dir/control/stop_simulation exists
    ev,               \* the last stop operation of the operator and its outcome
    gui_is_running,   \* AtScaleGatlingGUI.is_running
    start_enabled,    \* start_button is in state NORMAL
    stop_enabled,     \* stop_button is in state NORMAL
    afterq,           \* on_simulation_complete callbacks queued with root.after
    cmd,              \* the last command build_docker_command returned
    log_text,         \* the lines of the GUI log display (the Text widget log_text)
    nlog,             \* lines appended to the display since it was last cleared
    catalog_cube_pairs, \* AtScaleGatlingCore.catalog_cube_pairs
    disc,             \* the last discovery: what the server answered, what it returned
    cli,              \* run_cli_mode: position, arguments, selection, exit code
    config_json,      \* what the configuration editor has saved to config.json, if anything
    tail_process,     \* AtScaleGatlingGUI.tail_process: a follow subprocess id, 0 for None
    tailprocs,        \* the "tail -F" subprocesses started so far, by id
    tailth            \* the tail threads of the window, one per accepted Start

-----------------------------------------------------------------------------
(* Bounds of the model *)

MaxSel == 2         \* longest selection handed to write()
MaxCalls == 2       \* run_executor calls in one behaviour
MaxAppends == 1003  \* lines appended to the log display between two clears

-----------------------------------------------------------------------------
(* Text helpers: str.split("::"), str.strip(), str.replace(), str.join()   *)

SEP == <<" ", ":", ":", " ">>

\* f"{cat} :: {cube}"
PairStr(cat, cube) == cat \o SEP \o cube

\* index of the first "::" in s, 0 when there is none
FindSep(s) ==
    LET hits == { i \in 1..(Len(s) - 1) : s[i] = ":" /\ s[i + 1] = ":" }
    IN  IF hits = {} THEN 0 ELSE CHOOSE i \in hits : \A j \in hits : i <= j

RECURSIVE Split(_)
\* s.split("::")
Split(s) ==
    LET i == FindSep(s)
    IN  IF i = 0 THEN << s >>
        ELSE << SubSeq(s, 1, i - 1) >> \o Split(SubSeq(s, i + 2, Len(s)))

RECURSIVE LStrip(_)
LStrip(s) == IF s # << >> /\ Head(s) = " " THEN LStrip(Tail(s)) ELSE s

RECURSIVE RStrip(_)
RStrip(s) ==
    IF s # << >> /\ s[Len(s)] = " " THEN RStrip(SubSeq(s, 1, Len(s) - 1)) ELSE s

\* s.strip()
Strip(s) == RStrip(LStrip(s))

\* a replace that leaves the text as it is
ReplaceNothing(s, a, b) == s

\* s.replace(a, b) for a one-character a
Replace(s, a, b) == [ i \in 1..Len(s) |-> IF s[i] = a THEN b ELSE s[i] ]

RECURSIVE Join(_, _)
\* sep.join(parts)
Join(parts, sep) ==
    IF parts = << >> THEN << >>
    ELSE IF Len(parts) = 1 THEN parts[1]
    ELSE parts[1] \o << sep >> \o Join(Tail(parts), sep)

RECURSIVE Flatten(_)
Flatten(ss) == IF ss = << >> THEN << >> ELSE Head(ss) \o Flatten(Tail(ss))

\* str(flag).lower()
BoolStr(b) == IF b THEN "true" ELSE "false"

-----------------------------------------------------------------------------
(* Inputs: names the discovery can return, configurations, assignments     *)

\* the (catalog, cube) pairs the server of the model exposes
Discovered ==
    { << << "Cat1" >>, << "CubeA" >> >>,
      << << "Cat1" >>, << "Revenue", " ", "Cube" >> >>,
      << << "Sales", " ", "Data" >>, << "Revenue", "_", "Cube" >> >> }

Pairs == { PairStr(d[1], d[2]) : d \in Discovered }

RECURSIVE SeqsUpTo(_, _)
SeqsUpTo(S, n) ==
    IF n = 0 THEN { << >> }
    ELSE LET shorter == SeqsUpTo(S, n - 1)
         IN  shorter \cup { Append(s, x) : s \in { t \in shorter : Len(t) = n - 1 }, x \in S }

Selections == SeqsUpTo(Pairs, MaxSel)

RequiredCfg ==
    [ k \in { "host", "username", "password", "token", "postgres_host" } |->
        CASE k = "host"          -> << "h" >>
          [] k = "username"      -> << "u" >>
          [] k = "password"      -> << "p" >>
          [] k = "token"         -> << "t" >>
          [] k = "postgres_host" -> << "pg" >> ]

\* optional settings of the model: the keys are absent, all present and empty
\* (DEFAULT_CONFIG), or some are set
OptCfgs ==
    { << >>,
      [ k \in { "aws.region" } |-> << "us-east-1" >> ],
      [ k \in { "aws.region", "aws.secrets-key", "snowflake.archive.account",
                "snowflake.archive.warehouse", "snowflake.archive.database",
                "snowflake.archive.schema", "snowflake.archive.role",
                "snowflake.archive.username", "snowflake.archive.password",
                "snowflake.archive.token" } |-> << >> ],
      [ k \in { "snowflake.archive.password" } |-> << "sfpw" >> ],
      [ k \in { "snowflake.archive.token" } |-> << "sftok" >> ],
      [ k \in { "aws.region", "snowflake.archive.password", "snowflake.archive.token" } |->
          CASE k = "aws.region" -> << "us-east-1" >>
            [] k = "snowflake.archive.password" -> << "sfpw" >>
            [] k = "snowflake.archive.token" -> << "sftok" >> ] }

Configs == { RequiredCfg @@ o : o \in OptCfgs }

Assignment(jf, xf, jh, xh) ==
    [ jdbc_file |-> jf, xmla_file |-> xf, jdbc_has_header |-> jh, xmla_has_header |-> xh ]

JdbcOnly == Assignment(<< "sales.csv" >>, << >>, TRUE, TRUE)
BothFiles == Assignment(<< "sales.csv" >>, << "mdx.csv" >>, FALSE, TRUE)

\* file_assignments: None or {} (both falsy) is the empty function; otherwise
\* a dict from pair strings to assignments
FileAssignments(sel) ==
    IF sel = << >> THEN { << >> }
    ELSE { << >>,
           [ p \in { sel[i] : i \in 1..Len(sel) } |-> BothFiles ],
           [ p \in { sel[1] } |-> JdbcOnly ] }

-----------------------------------------------------------------------------
(* write_systems_properties_with_csv                                       *)

\* cfg[k]; raises KeyError when k is missing
HasKey(c, k) == k \in DOMAIN c
\* cfg.get(k) is truthy
Truthy(c, k) == HasKey(c, k) /\ c[k] # << >>
Val(c, k)    == IF HasKey(c, k) THEN c[k] ELSE << >>

\* one f.write(...): the line, or the exception evaluating it raises
Line(text) == [ exc |-> "none", text |-> text ]
Raise(e)   == [ exc |-> e, text |-> << >> ]
CfgLine(c, keys, text) ==
    IF \A k \in keys : HasKey(c, k) THEN Line(text) ELSE Raise("KeyError")

HeaderLines(fa) ==
    IF DOMAIN fa # {}
    THEN << Line(<< "# CSV Mode - Executors will read from CSV files" >>),
            Line(<< "atscale.schema.type=", "ingestion" >>) >>
    ELSE << Line(<< "# Live Mode - Executors will make live JDBC/XMLA calls" >>),
            Line(<< "atscale.schema.type=", "installer" >>) >>

\* catalogs = [pair.split("::")[0].strip() for pair in selected_pairs]
CatalogsOf(sel) == [ i \in 1..Len(sel) |-> Strip(Split(sel[i])[1]) ]

\* "atscale.models=" + ", ".join(catalogs)
ModelsLine(sel) == Line(<< "atscale.models=" >> \o Join(CatalogsOf(sel), ", "))

JdbcCsvLines(ck, fa, pair) ==
    IF DOMAIN fa # {} /\ pair \in DOMAIN fa /\ fa[pair].jdbc_file # << >>
    THEN << Line(<< "atscale." >> \o ck \o << ".jdbc.setIngestionFileName=" >>
                    \o fa[pair].jdbc_file),
            Line(<< "atscale." >> \o ck \o << ".jdbc.setIngestionFileHasHeader=" >>
                    \o << BoolStr(fa[pair].jdbc_has_header) >>) >>
    ELSE << >>

\* override lines written for every assigned pair, with or without a file
XmlaCsvLinesAlways(ck, fa, pair) ==
    IF DOMAIN fa # {} /\ pair \in DOMAIN fa
    THEN << Line(<< "atscale." >> \o ck \o << ".xmla.setIngestionFileName=" >>
                    \o fa[pair].xmla_file),
            Line(<< "atscale." >> \o ck \o << ".xmla.setIngestionFileHasHeader=" >>
                    \o << BoolStr(fa[pair].xmla_has_header) >>) >>
    ELSE << >>

XmlaCsvLines(ck, fa, pair) ==
    IF DOMAIN fa # {} /\ pair \in DOMAIN fa /\ fa[pair].xmla_file # << >>
    THEN << Line(<< "atscale." >> \o ck \o << ".xmla.setIngestionFileName=" >>
                    \o fa[pair].xmla_file),
            Line(<< "atscale." >> \o ck \o << ".xmla.setIngestionFileHasHeader=" >>
                    \o << BoolStr(fa[pair].xmla_has_header) >>) >>
    ELSE << >>

\* the body of "for pair in selected_pairs"; the packaged writer opens each
\* block with a "# <catalog> :: <cube>" comment (titled), the archived one
\* does not
PairBlock(c, fa, pair, titled) ==
    LET parts   == Split(pair)
        catalog == Strip(parts[1])
        cube    == Strip(parts[2])
        ck      == Replace(cube, " ", "_")
        cj      == Replace(catalog, " ", "%20")
        pre     == << "atscale." >> \o ck
    IN  IF Len(parts) # 2 THEN << Raise("ValueError") >>
        ELSE
          (IF titled THEN << Line(<< "# " >> \o catalog \o SEP \o cube) >> ELSE << >>)
          \o
          << CfgLine(c, { "host" },
                 pre \o << ".jdbc.url=", "jdbc:postgresql://" >> \o Val(c, "host")
                     \o << ":15432/" >> \o cj),
             CfgLine(c, { "username" }, pre \o << ".jdbc.username=" >> \o Val(c, "username")),
             CfgLine(c, { "password" }, pre \o << ".jdbc.password=" >> \o Val(c, "password")),
             Line(pre \o << ".jdbc.maxPoolSize=", "10" >>),
             Line(pre \o << ".jdbc.log.resultset.rows=", "true" >>) >>
          \o JdbcCsvLines(ck, fa, pair) \o
          << CfgLine(c, { "host" },
                 pre \o << ".xmla.auth.url=", "https://" >> \o Val(c, "host")
                     \o << ":10500/default/auth" >>),
             CfgLine(c, { "host", "token" },
                 pre \o << ".xmla.url=", "https://" >> \o Val(c, "host")
                     \o << ":10502/xmla/default/" >> \o Val(c, "token")),
             Line(pre \o << ".xmla.cube=" >> \o cube),
             Line(pre \o << ".xmla.catalog=" >> \o catalog),
             Line(pre \o << ".xmla.log.responsebody=", "true" >>),
             CfgLine(c, { "username" },
                 pre \o << ".xmla.auth.username=" >> \o Val(c, "username")),
             CfgLine(c, { "password" },
                 pre \o << ".xmla.auth.password=" >> \o Val(c, "password")) >>
          \o XmlaCsvLines(ck, fa, pair) \o
          << Line(<< "# " >>) >>

PostgresLines(c) ==
    << CfgLine(c, { "postgres_host" },
           << "atscale.postgres.jdbc.url=", "jdbc:postgresql://" >>
               \o Val(c, "postgres_host") \o << ":10520/atscale" >>),
       Line(<< "atscale.postgres.jdbc.username=", "atscale" >>),
       Line(<< "atscale.postgres.jdbc.password=", "atscale" >>) >>

TuningLines ==
    << Line(<< "#System Parameter" >>),
       Line(<< "atscale.gatling.throttle.ms=", "5" >>),
       Line(<< "atscale.xmla.maxConnectionsPerHost=", "20" >>),
       Line(<< "atscale.xmla.useAggregates=", "true" >>),
       Line(<< "atscale.xmla.generateAggregates=", "false" >>),
       Line(<< "atscale.xmla.useQueryCache=", "false" >>),
       Line(<< "atscale.xmla.useAggregateCache=", "true" >>),
       Line(<< "atscale.jdbc.useAggregates=", "true" >>),
       Line(<< "atscale.jdbc.generateAggregates=", "false" >>),
       Line(<< "atscale.jdbc.useLocalCache=", "false" >>) >>

\* the optional keys in the order the writer tests them
OptionalKeys ==
    << "aws.region", "aws.secrets-key",
       "snowflake.archive.account", "snowflake.archive.warehouse",
       "snowflake.archive.database", "snowflake.archive.schema",
       "snowflake.archive.role", "snowflake.archive.username",
       "snowflake.archive.password", "snowflake.archive.token" >>

\* the key whose value the writer prints after "<k>="
ValueKey(k) ==
    IF k = "snowflake.archive.password" THEN "snowflake.archive.token" ELSE k

\* an optional line written for every key that is there, empty or not
OptionalLineIfPresent(c, k) ==
    IF HasKey(c, k)
    THEN << CfgLine(c, { ValueKey(k) }, << k, "=" >> \o Val(c, ValueKey(k))) >>
    ELSE << >>

\* if self.cfg.get(k): f.write(f"{k}={self.cfg[ValueKey(k)]}\n")
OptionalLine(c, k) ==
    IF Truthy(c, k)
    THEN << CfgLine(c, { ValueKey(k) }, << k, "=" >> \o Val(c, ValueKey(k))) >>
    ELSE << >>

OptionalLines(c) == Flatten([ i \in 1..Len(OptionalKeys) |-> OptionalLine(c, OptionalKeys[i]) ])

\* a writer that puts the shared postgres block ahead of the pair blocks
WriteStepsPostgresFirst(c, sel, fa) ==
    HeaderLines(fa) \o << ModelsLine(sel) >>
    \o PostgresLines(c)
    \o Flatten([ i \in 1..Len(sel) |-> PairBlock(c, fa, sel[i], TRUE) ])
    \o TuningLines \o OptionalLines(c)

\* every f.write of the "with open(filepath, 'w')" block, in order
WriteSteps(c, sel, fa) ==
    HeaderLines(fa) \o << ModelsLine(sel) >>
    \o Flatten([ i \in 1..Len(sel) |-> PairBlock(c, fa, sel[i], TRUE) ])
    \o PostgresLines(c) \o TuningLines \o OptionalLines(c)

\* index of the first step that raises, 0 when none does
FirstRaise(steps) ==
    LET bad == { i \in 1..Len(steps) : steps[i].exc # "none" }
    IN  IF bad = {} THEN 0 ELSE CHOOSE i \in bad : \A j \in bad : i <= j

\* lines 174-178: what is checked before the file is opened
Precheck(sel) ==
    IF sel = << >> THEN "ValueError"
    ELSE IF \E i \in 1..Len(sel) : Len(Split(sel[i])) < 2 THEN "IndexError"
    ELSE "none"

\* "with open(filepath, 'w') as f": the file is truncated, the steps run until
\* one raises, and the file is closed with the lines written before that
WithOpenW(steps) ==
    LET r == FirstRaise(steps)
        n == IF r = 0 THEN Len(steps) ELSE r - 1
    IN  [ exc  |-> IF r = 0 THEN "none" ELSE steps[r].exc,
          file |-> [ exists |-> TRUE, lines |-> [ i \in 1..n |-> steps[i].text ] ] ]

\* a writer that opens (and so truncates) the file before it validates
WriteOpensFirst(c, sel, fa, old) ==
    IF Precheck(sel) # "none"
    THEN [ exc |-> Precheck(sel), file |-> [ exists |-> TRUE, lines |-> << >> ] ]
    ELSE WithOpenW(WriteSteps(c, sel, fa))

\* a writer that opens the file with "a" and so keeps what it finds
WriteAppends(c, sel, fa, old) ==
    IF Precheck(sel) # "none"
    THEN [ exc |-> Precheck(sel), file |-> old ]
    ELSE LET res == WithOpenW(WriteSteps(c, sel, fa))
         IN  [ exc |-> res.exc,
               file |-> [ exists |-> TRUE, lines |-> old.lines \o res.file.lines ] ]

\* the call as a whole: the exception it raises ("none" when it returns) and
\* the file it leaves, given the file `old` it finds
write_systems_properties_with_csv(c, sel, fa, old) ==
    IF Precheck(sel) # "none"
    THEN [ exc |-> Precheck(sel), file |-> old ]
    ELSE WithOpenW(WriteSteps(c, sel, fa))

\* the archived build's writer: live mode only, no comment lines
ArchiveWriteSteps(c, sel) ==
    << Line(<< "atscale.schema.type=", "installer" >>), ModelsLine(sel) >>
    \o Flatten([ i \in 1..Len(sel) |-> PairBlock(c, << >>, sel[i], FALSE) ])
    \o PostgresLines(c) \o TuningLines \o OptionalLines(c)

write_systems_properties(c, sel, old) ==
    IF Precheck(sel) # "none"
    THEN [ exc |-> Precheck(sel), file |-> old ]
    ELSE WithOpenW(ArchiveWriteSteps(c, sel))

-----------------------------------------------------------------------------
(* State shared by the specifications                                      *)

NoFile == [ exists |-> FALSE, lines |-> << >> ]
NoCall == [ called |-> FALSE, sel |-> << >>, fa |-> << >>, exc |-> "none", again |-> FALSE ]

Threads == { "t1", "t2" }
Pids    == 1..MaxCalls

executors ==
    << "InstallerVerQueryExtractExecutor", "CustomQueryExtractExecutor",
       "QueryExtractExecutor", "OpenStepConcurrentSimulationExecutor",
       "ClosedStepConcurrentSimulationExecutor", "OpenStepSequentialSimulationExecutor",
       "ClosedStepSequentialSimulationExecutor", "ArchiveJdbcToSnowflake",
       "ArchiveXmlaToSnowflake" >>

ExecutorSet == { executors[i] : i \in 1..Len(executors) }

\* the exit codes the harness ends with when nothing signals it
ExitCodes == { 0, 1 }

Idle ==
    [ pc |-> "idle", via |-> "none", exe |-> "None", sel |-> << >>, follow |-> FALSE,
      will |-> 0, ret |-> "none", rejected |-> FALSE, pid |-> 0, h |-> 0 ]

NoProc == [ st |-> "none", will |-> 0, code |-> 0, reaped |-> FALSE, sig |-> FALSE ]

NoEvent == [ op |-> "none", ret |-> FALSE ]

NoCmd == [ built |-> FALSE, exe |-> "None", cacerts |-> FALSE, env |-> << >>, args |-> << >> ]

NoDiscovery ==
    [ called |-> FALSE, ret |-> FALSE,
      server |-> [ catalogs |-> [ status |-> "none", body |-> << >> ], failing |-> {} ] ]

NoArgs == [ models |-> << >>, all_models |-> FALSE, executor |-> "", follow |-> FALSE ]

NoCli ==
    [ pc |-> "none", args |-> NoArgs, selected |-> << >>, executor |-> "None",
      invalid |-> FALSE, launched |-> FALSE, exit |-> -1 ]

\* config.json as the session found it: the editor has not saved
NotEdited == [ edited |-> FALSE, data |-> << >> ]

\* a tail thread that has not been started; h is the subprocess it last read
\* from
NoTail == [ pc |-> "none", h |-> 0 ]

wvars   == << cfg, props, wlast >>
corevars == << is_running, current_executor, current_process >>
guivars == << gui_is_running, start_enabled, stop_enabled, afterq >>
tailvars == << tail_process, tailprocs, tailth >>
extravars == << config_json, tailvars >>
sidevars == << cmd, log_text, nlog, catalog_cube_pairs, disc, cli, extravars >>
vars == << build, cfg, props, wlast, image, is_running, current_executor,
           current_process, procs, th, ncalls, sentinel, ev,
           gui_is_running, start_enabled, stop_enabled, afterq,
           cmd, log_text, nlog, catalog_cube_pairs, disc, cli,
           config_json, tail_process, tailprocs, tailth >>

\* AtScaleGatlingCore.__init__ and AtScaleGatlingGUI.__init__
InitCommon ==
    /\ props = NoFile
    /\ wlast = NoCall
    /\ is_running = FALSE
    /\ current_executor = "None"
    /\ current_process = 0
    /\ procs = [ p \in Pids |-> NoProc ]
    /\ th = [ t \in Threads |-> Idle ]
    /\ ncalls = 0
    /\ ev = NoEvent
    /\ gui_is_running = FALSE
    /\ start_enabled = TRUE
    /\ stop_enabled = FALSE
    /\ afterq = 0
    /\ cmd = NoCmd
    /\ log_text = << >>
    /\ nlog = 0
    /\ catalog_cube_pairs = << >>
    /\ disc = NoDiscovery
    /\ cli = NoCli
    /\ config_json = NotEdited
    /\ tail_process = 0
    /\ tailprocs = [ p \in Pids |-> "none" ]
    /\ tailth = [ k \in Pids |-> NoTail ]

-----------------------------------------------------------------------------
(* The writer driven with every input: SpecWrite                           *)

InitWrite ==
    /\ InitCommon
    /\ build = "package"
    /\ image = "present"
    /\ sentinel = FALSE
    /\ cfg \in Configs

\* a caller (CSVConfigWindow.save_configuration, or the API) invokes write()
Write(sel, fa) ==
    LET res == write_systems_properties_with_csv(cfg, sel, fa, props)
    IN  /\ props' = res.file
        /\ wlast' = [ called |-> TRUE, sel |-> sel, fa |-> fa, exc |-> res.exc,
                      again |-> FALSE ]
        /\ UNCHANGED << build, sidevars, cfg, image, corevars, procs, th, ncalls, sentinel, ev, guivars >>

NextWrite == \E sel \in Selections : \E fa \in FileAssignments(sel) : Write(sel, fa)

SpecWrite == InitWrite /\ [][NextWrite]_vars

-----------------------------------------------------------------------------
(* The same write() twice: SpecRewrite                                     *)

\* the first Save of a session
FirstWrite(sel, fa) == ~wlast.called /\ Write(sel, fa)

\* the caller repeats its last call with the inputs unchanged
WriteAgain ==
    /\ wlast.called
    /\ ~wlast.again
    /\ LET res == write_systems_properties_with_csv(cfg, wlast.sel, wlast.fa, props)
       IN  /\ props' = res.file
           /\ wlast' = [ wlast EXCEPT !.exc = res.exc, !.again = TRUE ]
    /\ UNCHANGED << build, sidevars, cfg, image, corevars, procs, th, ncalls, sentinel, ev, guivars >>

NextRewrite ==
    \/ \E sel \in Selections : \E fa \in FileAssignments(sel) : FirstWrite(sel, fa)
    \/ WriteAgain

SpecRewrite == InitWrite /\ [][NextRewrite]_vars

-----------------------------------------------------------------------------
(* AtScaleGatlingCore.run_executor, one action per access to shared state  *)

Upd(t, r) == [ th EXCEPT ![t] = r ]

\* a check that never finds the slot taken
SlotNeverBusy == FALSE

\* line 323: "if self.is_running"
SlotBusy == is_running

\* lines 323-325: the slot is tested; a busy slot ends the call with False
run_check(t) ==
    /\ th[t].pc = "check"
    /\ th' = Upd(t, IF SlotBusy
                    THEN [ th[t] EXCEPT !.pc = "returned", !.ret = "false", !.rejected = TRUE ]
                    ELSE [ th[t] EXCEPT !.pc = "accept" ])
    /\ UNCHANGED << build, sidevars, wvars, image, corevars, procs, ncalls, sentinel, ev, guivars >>

\* lines 327-328: the slot is taken
run_accept(t) ==
    /\ th[t].pc = "accept"
    /\ is_running' = TRUE
    /\ current_executor' = th[t].exe
    /\ th' = Upd(t, [ th[t] EXCEPT !.pc = "write" ])
    /\ UNCHANGED << build, sidevars, wvars, image, current_process, procs, ncalls, sentinel, ev, guivars >>

\* a run_executor whose line 332 finds a live-mode writer in every build and
\* regenerates the document from the selection alone
RunWriteLive(t) ==
    /\ th[t].pc = "write"
    /\ LET res == write_systems_properties(cfg, th[t].sel, props)
       IN  /\ props' = res.file
           /\ th' = Upd(t, IF res.exc = "none"
                           THEN [ th[t] EXCEPT !.pc = "image" ]
                           ELSE [ th[t] EXCEPT !.pc = "finally", !.ret = "false" ])
    /\ UNCHANGED << build, sidevars, cfg, wlast, image, corevars, procs, ncalls, sentinel, ev, guivars >>

\* line 332: self.write_systems_properties(selected_pairs).  The packaged core
\* defines no such method, so the attribute lookup raises AttributeError; the
\* archived build calls its live-mode writer.  An exception goes to line 363.
run_write(t) ==
    /\ th[t].pc = "write"
    /\ LET res == IF build = "package"
                  THEN [ exc |-> "AttributeError", file |-> props ]
                  ELSE write_systems_properties(cfg, th[t].sel, props)
       IN  /\ props' = res.file
           /\ th' = Upd(t, IF res.exc = "none"
                           THEN [ th[t] EXCEPT !.pc = "image" ]
                           ELSE [ th[t] EXCEPT !.pc = "finally", !.ret = "false" ])
    /\ UNCHANGED << build, sidevars, cfg, wlast, image, corevars, procs, ncalls, sentinel, ev, guivars >>

\* a run that goes on to spawn whatever ensure_docker_image returned
RunImageIgnoresResult(t) ==
    /\ th[t].pc = "image"
    /\ image' = IF image = "pullable" THEN "present" ELSE image
    /\ th' = Upd(t, [ th[t] EXCEPT !.pc = "spawn" ])
    /\ UNCHANGED << build, sidevars, wvars, corevars, procs, ncalls, sentinel, ev, guivars >>

\* ensure_docker_image: inspect, then pull when the image is not there
ImageAvailable == image # "missing"

\* lines 334-336
run_image(t) ==
    /\ th[t].pc = "image"
    /\ image' = IF image = "pullable" THEN "present" ELSE image
    /\ th' = Upd(t, IF ImageAvailable
                    THEN [ th[t] EXCEPT !.pc = "spawn" ]
                    ELSE [ th[t] EXCEPT !.pc = "finally", !.ret = "false" ])
    /\ UNCHANGED << build, sidevars, wvars, corevars, procs, ncalls, sentinel, ev, guivars >>

NextPid == Cardinality({ p \in Pids : procs[p].st # "none" }) + 1

\* lines 346-347: subprocess.Popen; the handle goes to self.current_process
run_spawn(t) ==
    /\ th[t].pc = "spawn"
    /\ NextPid \in Pids
    /\ procs' = [ procs EXCEPT ![NextPid] =
                    [ st |-> "running", will |-> th[t].will, code |-> 0,
                      reaped |-> FALSE, sig |-> FALSE ] ]
    /\ current_process' = NextPid
    /\ th' = Upd(t, [ th[t] EXCEPT !.pid = NextPid,
                                   !.pc = IF th[t].follow THEN "tail" ELSE "wait" ])
    /\ UNCHANGED << build, sidevars, wvars, image, is_running, current_executor, ncalls,
                    sentinel, ev, guivars >>

\* line 354: self.current_process.wait() is entered on the handle the
\* attribute holds at that moment
run_wait_begin(t) ==
    /\ th[t].pc = "wait"
    /\ th' = Upd(t, [ th[t] EXCEPT !.pc = "blocked", !.h = current_process ])
    /\ UNCHANGED << build, sidevars, wvars, image, corevars, procs, ncalls, sentinel, ev, guivars >>

\* line 354: wait() returns once that process has exited, and sets returncode
run_wait_end(t) ==
    /\ th[t].pc = "blocked"
    /\ procs[th[t].h].st = "exited"
    /\ procs' = [ procs EXCEPT ![th[t].h].reaped = TRUE ]
    /\ th' = Upd(t, [ th[t] EXCEPT !.pc = "result" ])
    /\ UNCHANGED << build, sidevars, wvars, image, corevars, ncalls, sentinel, ev, guivars >>

\* tail_logs_cli, line 388: the loop ends when current_process.poll() sees the
\* exit (and sets returncode)
tail_sees_exit(t) ==
    /\ th[t].pc = "tail"
    /\ procs[current_process].st = "exited"
    /\ procs' = [ procs EXCEPT ![current_process].reaped = TRUE ]
    /\ th' = Upd(t, [ th[t] EXCEPT !.pc = "result" ])
    /\ UNCHANGED << build, sidevars, wvars, image, corevars, ncalls, sentinel, ev, guivars >>

\* tail_logs_cli, lines 388 and 396-399: the loop also ends when the tail
\* subprocess has exited, or on Ctrl+C ("executor continues running")
tail_interrupted(t) ==
    /\ th[t].pc = "tail"
    /\ th' = Upd(t, [ th[t] EXCEPT !.pc = "result" ])
    /\ UNCHANGED << build, sidevars, wvars, image, corevars, procs, ncalls, sentinel, ev, guivars >>

\* self.current_process.returncode == 0; returncode is None until wait() or
\* poll() has seen the exit
ReturncodeIsZero(p) == procs[p].reaped /\ procs[p].code = 0

\* lines 356-361
run_result(t) ==
    /\ th[t].pc = "result"
    /\ th' = Upd(t, [ th[t] EXCEPT !.pc = "finally",
                         !.ret = IF ReturncodeIsZero(current_process) THEN "true" ELSE "false" ])
    /\ UNCHANGED << build, sidevars, wvars, image, corevars, procs, ncalls, sentinel, ev, guivars >>

\* a "finally" that frees the slot only after a successful run
RunFinallyOnSuccessOnly(t) ==
    /\ th[t].pc = "finally"
    /\ is_running' = (IF th[t].ret = "true" THEN FALSE ELSE is_running)
    /\ th' = Upd(t, [ th[t] EXCEPT !.pc = "returned" ])
    /\ UNCHANGED << build, sidevars, wvars, image, current_executor, current_process, procs,
                    ncalls, sentinel, ev, guivars >>

\* lines 366-367
run_finally(t) ==
    /\ th[t].pc = "finally"
    /\ is_running' = FALSE
    /\ th' = Upd(t, [ th[t] EXCEPT !.pc = "returned" ])
    /\ UNCHANGED << build, sidevars, wvars, image, current_executor, current_process, procs,
                    ncalls, sentinel, ev, guivars >>

\* the external process ends: with its own exit code, or killed by SIGTERM
proc_exit(p) ==
    /\ procs[p].st = "running"
    /\ procs' = [ procs EXCEPT ![p].st = "exited",
                               ![p].code = IF procs[p].sig THEN -15 ELSE procs[p].will ]
    /\ UNCHANGED << build, sidevars, wvars, image, corevars, th, ncalls, sentinel, ev, guivars >>

-----------------------------------------------------------------------------
(* The cooperative stop signal                                             *)

\* a stop_simulation that also gives up the run slot
StopSimulationFreesSlot ==
    /\ sentinel' = TRUE
    /\ ev' = [ op |-> "requestStop", ret |-> TRUE ]
    /\ is_running' = FALSE
    /\ UNCHANGED << build, sidevars, wvars, image, current_executor, current_process, procs, th,
                    ncalls, guivars >>

\* core.py lines 403-413: the sentinel file is created or overwritten
stop_simulation ==
    /\ sentinel' = TRUE
    /\ ev' = [ op |-> "requestStop", ret |-> TRUE ]
    /\ UNCHANGED << build, sidevars, wvars, image, corevars, procs, th, ncalls, guivars >>

\* a cancel_stop_signal that reports the removal without removing the file
CancelKeepsSentinel ==
    /\ sentinel' = sentinel
    /\ ev' = [ op |-> "cancelStop", ret |-> sentinel ]
    /\ UNCHANGED << build, sidevars, wvars, image, corevars, procs, th, ncalls, guivars >>

\* core.py lines 415-426: the sentinel file is removed when it exists, and
\* the call returns whether it did
cancel_stop_signal ==
    /\ sentinel' = FALSE
    /\ ev' = [ op |-> "cancelStop", ret |-> sentinel ]
    /\ UNCHANGED << build, sidevars, wvars, image, corevars, procs, th, ncalls, guivars >>

-----------------------------------------------------------------------------
(* The core called by concurrent callers: SpecCore                         *)

\* what callers pass to run_executor: a listed executor with a selection, for
\* every follow_logs and every exit code of the harness; an unlisted executor;
\* an empty selection
Cat1CubeA == PairStr(<< "Cat1" >>, << "CubeA" >>)

ApiInputs ==
    { [ exe |-> "QueryExtractExecutor", sel |-> << Cat1CubeA >>, follow |-> f, will |-> w ] :
        f \in BOOLEAN, w \in ExitCodes }
    \cup { [ exe |-> "NoSuchExecutor", sel |-> << Cat1CubeA >>, follow |-> FALSE, will |-> 0 ],
           [ exe |-> "QueryExtractExecutor", sel |-> << >>, follow |-> FALSE, will |-> 0 ] }

InitCore ==
    /\ InitCommon
    /\ build \in { "package", "archive" }
    /\ image \in { "present", "pullable", "missing" }
    /\ sentinel = FALSE
    /\ cfg = RequiredCfg

\* a caller enters run_executor(executor_name, selected_pairs, follow_logs);
\* w is the exit code the harness would end this run with
api_call(t, in) ==
    /\ th[t].pc = "idle"
    /\ ncalls < MaxCalls
    /\ ncalls' = ncalls + 1
    /\ th' = Upd(t, [ Idle EXCEPT !.pc = "check", !.via = "api", !.exe = in.exe,
                                  !.sel = in.sel, !.follow = in.follow, !.will = in.will ])
    /\ UNCHANGED << build, sidevars, wvars, image, corevars, procs, sentinel, ev, guivars >>

\* the caller takes the result and is free for another call
api_return(t) ==
    /\ th[t].pc = "returned"
    /\ th[t].via = "api"
    /\ th' = Upd(t, Idle)
    /\ UNCHANGED << build, sidevars, wvars, image, corevars, procs, ncalls, sentinel, ev, guivars >>

\* run_executor with follow_logs=False
run_executor(t) ==
    \/ run_check(t)
    \/ run_accept(t)
    \/ run_write(t)
    \/ run_image(t)
    \/ run_spawn(t)
    \/ run_wait_begin(t)
    \/ run_wait_end(t)
    \/ run_result(t)
    \/ run_finally(t)

\* the steps follow_logs=True adds
tail_logs_cli(t) ==
    \/ tail_sees_exit(t)
    \/ tail_interrupted(t)

NextCore ==
    \/ \E t \in Threads, in \in ApiInputs : api_call(t, in)
    \/ \E t \in Threads : run_executor(t)
    \/ \E t \in Threads : tail_logs_cli(t)
    \/ \E t \in Threads : api_return(t)
    \/ \E p \in Pids : proc_exit(p)

SpecCore == InitCore /\ [][NextCore]_vars

-----------------------------------------------------------------------------
(* The window over the core: SpecGui                                       *)

\* what the operator selects before pressing Start: an executor row, a
\* non-empty selection; w is the exit code the harness would end the run with
GuiInputs ==
    { [ exe |-> executors[3], sel |-> << Cat1CubeA >>, will |-> w ] : w \in ExitCodes }

InitGui ==
    /\ InitCommon
    /\ build \in { "package", "archive" }
    /\ image \in { "present", "missing" }
    /\ sentinel \in BOOLEAN
    /\ cfg = RequiredCfg

\* gui.py lines 652-696, the command of start_button; thread t is the
\* background thread that enters run_executor(executor, selected_models, False)
start_simulation(t, in) ==
    /\ start_enabled
    /\ th[t].pc = "idle"
    /\ IF gui_is_running
       THEN UNCHANGED << th, ncalls, guivars >>
       ELSE /\ ncalls < MaxCalls
            /\ ncalls' = ncalls + 1
            /\ start_enabled' = FALSE
            /\ stop_enabled' = TRUE
            /\ gui_is_running' = TRUE
            /\ th' = Upd(t, [ Idle EXCEPT !.pc = "check", !.via = "gui", !.exe = in.exe,
                                          !.sel = in.sel, !.will = in.will ])
            /\ UNCHANGED afterq
    /\ UNCHANGED << build, sidevars, wvars, image, corevars, procs, sentinel, ev >>

\* gui.py lines 723-725, the finally of run_simulation_background
run_simulation_background(t) ==
    /\ th[t].pc = "returned"
    /\ th[t].via = "gui"
    /\ gui_is_running' = FALSE
    /\ afterq' = afterq + 1
    /\ th' = Upd(t, Idle)
    /\ UNCHANGED << build, sidevars, wvars, image, corevars, procs, ncalls, sentinel, ev,
                    start_enabled, stop_enabled >>

\* gui.py lines 740-744, run from the event loop for each root.after(0, ...)
on_simulation_complete ==
    /\ afterq > 0
    /\ afterq' = afterq - 1
    /\ start_enabled' = TRUE
    /\ stop_enabled' = FALSE
    /\ UNCHANGED << build, sidevars, wvars, image, corevars, procs, th, ncalls, sentinel, ev,
                    gui_is_running >>

\* Popen.terminate(): SIGTERM to a process that runs; on one that has ended it
\* only collects the exit code
Terminate(p) ==
    IF procs[p].st = "running"
    THEN [ procs EXCEPT ![p].sig = TRUE ]
    ELSE [ procs EXCEPT ![p].reaped = TRUE ]

\* gui.py lines 727-738, the command of stop_button
stop_running_simulation ==
    /\ stop_enabled
    /\ ev' = [ op |-> "stop", ret |-> gui_is_running /\ current_process # 0 ]
    /\ IF gui_is_running /\ current_process # 0
       THEN /\ procs' = Terminate(current_process)
            /\ gui_is_running' = FALSE
            /\ start_enabled' = TRUE
            /\ stop_enabled' = FALSE
            /\ UNCHANGED afterq
       ELSE UNCHANGED << procs, guivars >>
    /\ UNCHANGED << build, sidevars, wvars, image, corevars, th, ncalls, sentinel >>

NextGui ==
    \/ \E t \in Threads, in \in GuiInputs : start_simulation(t, in)
    \/ \E t \in Threads : run_executor(t)
    \/ \E t \in Threads : run_simulation_background(t)
    \/ on_simulation_complete
    \/ stop_running_simulation
    \/ stop_simulation
    \/ cancel_stop_signal
    \/ \E p \in Pids : proc_exit(p)

SpecGui == InitGui /\ [][NextGui]_vars

-----------------------------------------------------------------------------
(* build_docker_command for every executor and proxy setting: SpecCmd      *)

\* the proxy settings of the model: each of proxy and proxyport is absent,
\* empty or set; one configuration also carries proxy credentials
ProxyCfgs ==
    { [ k \in ks |-> IF k = "proxy" THEN h ELSE q ] :
        ks \in SUBSET { "proxy", "proxyport" },
        h \in { << >>, << "px" >> }, q \in { << >>, << "3128" >> } }
    \cup { [ k \in { "proxy", "proxyport", "proxy_username", "proxy_password" } |->
               CASE k = "proxy" -> << "px" >>
                 [] k = "proxyport" -> << "3128" >>
                 [] k = "proxy_username" -> << "pu" >>
                 [] k = "proxy_password" -> << "pp" >> ] }

ArchiveExecutors == { "ArchiveJdbcToSnowflake", "ArchiveXmlaToSnowflake" }

\* cfg.get(k, default)
Get(c, k, default) == IF HasKey(c, k) THEN c[k] ELSE default

\* "-e", "<name>=<value>"
EnvVar(name, value) == [ name |-> name, value |-> value ]

\* f"http://{proxy_host}:{proxy_port}"
ProxyUrl(host, port) == << "http://" >> \o host \o << ":" >> \o port

\* the cacerts volume and trust store option, when ./cacerts is a file
CacertsEnv(cacerts) ==
    IF cacerts
    THEN << EnvVar("JAVA_TOOL_OPTIONS",
                   << "-Djavax.net.ssl.trustStore=/app/cacerts -Djavax.net.ssl.trustStorePassword=changeit" >>) >>
    ELSE << >>

\* core.py lines 278-305 (the archived GUI build has the same function)
build_docker_command(c, executor_name, cacerts) ==
    LET proxy_host == Get(c, "proxy", << >>)
        proxy_port == Get(c, "proxyport", << >>)
    IN  [ built |-> TRUE, exe |-> executor_name, cacerts |-> cacerts,
          env |-> CacertsEnv(cacerts) \o
                  (IF executor_name \in ArchiveExecutors
                      /\ proxy_host # << >> /\ proxy_port # << >>
                   THEN << EnvVar("HTTP_PROXY", ProxyUrl(proxy_host, proxy_port)),
                           EnvVar("HTTPS_PROXY", ProxyUrl(proxy_host, proxy_port)) >>
                   ELSE << >>),
          args |-> << executor_name, "working_dir/config/systems.properties" >> ]

\* src/atscale-gatling-archive-v1.py lines 294-342: the stand-alone script
v1_build_docker_command(c, executor_name, cacerts) ==
    LET proxy_host == Get(c, "proxy", << "your-proxy-server.com" >>)
        proxy_port == Get(c, "proxyport", << "8080" >>)
        proxy_user == Get(c, "proxy_username", << >>)
        proxy_pass == Get(c, "proxy_password", << >>)
    IN  [ built |-> TRUE, exe |-> executor_name, cacerts |-> cacerts,
          env |-> CacertsEnv(cacerts) \o
                  (IF executor_name \in ArchiveExecutors
                   THEN << EnvVar("HTTP_PROXY", ProxyUrl(proxy_host, proxy_port)),
                           EnvVar("HTTPS_PROXY", ProxyUrl(proxy_host, proxy_port)),
                           EnvVar("http.proxyHost", proxy_host),
                           EnvVar("http.proxyPort", proxy_port),
                           EnvVar("https.proxyHost", proxy_host),
                           EnvVar("https.proxyPort", proxy_port) >>
                        \o (IF proxy_user # << >> /\ proxy_pass # << >>
                            THEN << EnvVar("http.proxyUser", proxy_user),
                                    EnvVar("http.proxyPassword", proxy_pass),
                                    EnvVar("https.proxyUser", proxy_user),
                                    EnvVar("https.proxyPassword", proxy_pass) >>
                            ELSE << >>)
                   ELSE << >>),
          args |-> << executor_name, "working_dir/config/systems.properties" >> ]

InitCmd ==
    /\ InitCommon
    /\ build \in { "package", "archive", "v1" }
    /\ image = "present"
    /\ sentinel = FALSE
    /\ cfg \in { RequiredCfg @@ o : o \in ProxyCfgs }

\* the launcher builds the invocation for an executor; cacerts says whether
\* ./cacerts is a file
BuildCommand(executor_name, cacerts) ==
    /\ cmd' = IF build = "v1"
              THEN v1_build_docker_command(cfg, executor_name, cacerts)
              ELSE build_docker_command(cfg, executor_name, cacerts)
    /\ UNCHANGED << build, wvars, image, corevars, procs, th, ncalls, sentinel, ev, guivars,
                    log_text, nlog, catalog_cube_pairs, disc, cli, extravars >>

NextCmd == \E e \in ExecutorSet, cacerts \in BOOLEAN : BuildCommand(e, cacerts)

SpecCmd == InitCmd /\ [][NextCmd]_vars

-----------------------------------------------------------------------------
(* The log display of the window: SpecLog                                  *)

\* gui.py line 857: "if lines > 1000"
LogLimit == 1000

\* int(self.log_text.index('end-1c').split('.')[0]): every line of the widget
\* ends with a newline, so the index after the last one is on the next line
EndLine(text) == Len(text) + 1

\* self.log_text.delete(1.0, f"{n}.0"): lines 1 to n-1 go
DeleteBefore(text, n) == SubSeq(text, n, Len(text))

\* an append that never deletes
InsertOnly(text, line) == Append(text, line)

\* gui.py lines 850-861
append_log(text, line) ==
    LET inserted == Append(text, line)
        lines    == EndLine(inserted)
    IN  IF lines > LogLimit THEN DeleteBefore(inserted, lines - LogLimit) ELSE inserted

InitLog ==
    /\ InitCommon
    /\ build \in { "package", "archive" }
    /\ image = "present"
    /\ sentinel = FALSE
    /\ cfg = RequiredCfg

\* check_queue (gui.py lines 838-846) or log_activity (868-871) appends a
\* line; a line is named by its number among those appended since the last
\* clear
AppendLog ==
    /\ nlog < MaxAppends
    /\ nlog' = nlog + 1
    /\ log_text' = append_log(log_text, nlog + 1)
    /\ UNCHANGED << build, wvars, image, corevars, procs, th, ncalls, sentinel, ev, guivars,
                    cmd, catalog_cube_pairs, disc, cli, extravars >>

\* gui.py lines 862-866, called by start_simulation
clear_logs ==
    /\ log_text' = << >>
    /\ nlog' = 0
    /\ UNCHANGED << build, wvars, image, corevars, procs, th, ncalls, sentinel, ev, guivars,
                    cmd, catalog_cube_pairs, disc, cli, extravars >>

NextLog == AppendLog \/ clear_logs

SpecLog == InitLog /\ [][NextLog]_vars

-----------------------------------------------------------------------------
(* Discovery against every server of the model: SpecDisc                   *)

\* an element of an XMLA response, in document order
Elem(tag, text) == [ tag |-> tag, text |-> text ]

\* what run_xmla_query gets: a response body, an HTTP error status, or a
\* body that is not well-formed XML
Ok(body)  == [ status |-> "ok", body |-> body ]
HttpError == [ status |-> "http_error", body |-> << >> ]
Malformed == [ status |-> "malformed", body |-> << >> ]

\* a rowset with one row per name
Rowset(tag, names) ==
    << Elem("root", << >>) >>
    \o Flatten([ i \in 1..Len(names) |-> << Elem("row", << >>), Elem(tag, names[i]) >> ])

Cat1 == << "Cat1" >>
SalesData == << "Sales", " ", "Data" >>
Ops == << "Ops" >>

\* the cubes the server holds for a catalog
CubesOf(cat) ==
    CASE cat = Cat1 -> << << "CubeA" >>, << "Revenue", " ", "Cube" >> >>
      [] cat = SalesData -> << << "Revenue", "_", "Cube" >> >>
      [] OTHER -> << >>

\* a server: its answer to the catalog query, and the catalogs whose cube
\* query it answers with an HTTP error
Server(catalogs, failing) == [ catalogs |-> catalogs, failing |-> failing ]

Servers ==
    { Server(HttpError, {}), Server(Malformed, {}),
      Server(Ok(Rowset("CATALOG_NAME", << >>)), {}),
      Server(Ok(Rowset("CATALOG_NAME", << Ops >>)), {}),
      Server(Ok(Rowset("CATALOG_NAME", << Cat1 >>)), {}),
      Server(Ok(Rowset("CATALOG_NAME", << SalesData, Cat1 >>)), {}) }
    \cup { Server(Ok(Rowset("CATALOG_NAME", << Cat1, SalesData >>)), f) :
             f \in { {}, { Cat1 }, { SalesData }, { Cat1, SalesData } } }
    \cup { Server(Ok(Rowset("CATALOG_NAME", << Cat1, Ops, SalesData >>)), f) :
             f \in { {}, { Cat1 }, { Ops }, { SalesData } } }

\* the answer to the cube query for a catalog
CubeResponse(server, cat) ==
    IF cat \in server.failing THEN HttpError ELSE Ok(Rowset("CUBE_NAME", CubesOf(cat)))

\* run_xmla_query and ET.fromstring raise on an HTTP error status and on a
\* body that is not well-formed
Raises(resp) == resp.status # "ok"

\* [el.text for el in root.findall(".//{...rowset}<tag>")]
FindAllText(resp, tag) ==
    LET hits == SelectSeq(resp.body, LAMBDA el : el.tag = tag)
    IN  [ i \in 1..Len(hits) |-> hits[i].text ]

\* core.py lines 162-165 and 167-170
parse_catalogs(resp) == FindAllText(resp, "CATALOG_NAME")
parse_cubes(resp) == FindAllText(resp, "CUBE_NAME")

\* the pairs of one catalog: f"{cat} :: {cube}" for each of its cubes
PairsOfCatalog(server, cat) ==
    LET cubes == parse_cubes(CubeResponse(server, cat))
    IN  [ i \in 1..Len(cubes) |-> PairStr(cat, cubes[i]) ]

RECURSIVE PairsUntilFailure(_, _)
\* the pairs collected before the first cube query that fails
PairsUntilFailure(server, catalogs) ==
    IF catalogs = << >> \/ Raises(CubeResponse(server, Head(catalogs))) THEN << >>
    ELSE PairsOfCatalog(server, Head(catalogs)) \o PairsUntilFailure(server, Tail(catalogs))

\* a discovery that appends to self.catalog_cube_pairs as it goes, so that a
\* failure leaves the pairs collected so far
DiscoverStoresAsItGoes(server, old) ==
    IF Raises(server.catalogs) THEN [ ret |-> FALSE, pairs |-> old ]
    ELSE LET catalogs == parse_catalogs(server.catalogs)
         IN  IF catalogs = << >> THEN [ ret |-> FALSE, pairs |-> old ]
             ELSE [ ret |-> \A i \in 1..Len(catalogs) :
                                ~Raises(CubeResponse(server, catalogs[i])),
                    pairs |-> PairsUntilFailure(server, catalogs) ]

\* core.py lines 73-95: any exception, of the catalog query or of a cube
\* query, ends the discovery with False and leaves catalog_cube_pairs alone
discover_and_setup(server, old) ==
    IF Raises(server.catalogs) THEN [ ret |-> FALSE, pairs |-> old ]
    ELSE LET catalogs == parse_catalogs(server.catalogs)
         IN  IF catalogs = << >> THEN [ ret |-> FALSE, pairs |-> old ]
             ELSE IF \E i \in 1..Len(catalogs) : Raises(CubeResponse(server, catalogs[i]))
             THEN [ ret |-> FALSE, pairs |-> old ]
             ELSE [ ret |-> TRUE,
                    pairs |-> Flatten([ i \in 1..Len(catalogs) |->
                                          PairsOfCatalog(server, catalogs[i]) ]) ]

\* src/atscale-gatling-archive-v1.py lines 455-477: the script exits on a
\* failed catalog query and on an empty result, and skips a catalog whose
\* cube query fails; ret is FALSE when it exits
v1_discover(server, old) ==
    IF Raises(server.catalogs) THEN [ ret |-> FALSE, pairs |-> old ]
    ELSE LET catalogs == parse_catalogs(server.catalogs)
             results  == Flatten([ i \in 1..Len(catalogs) |->
                            IF Raises(CubeResponse(server, catalogs[i])) THEN << >>
                            ELSE PairsOfCatalog(server, catalogs[i]) ])
         IN  [ ret |-> results # << >>, pairs |-> results ]

InitDisc ==
    /\ InitCommon
    /\ build \in { "package", "archive", "v1" }
    /\ image = "present"
    /\ sentinel = FALSE
    /\ cfg = RequiredCfg

\* the front end runs the discovery against a server
Discover(server) ==
    /\ LET res == IF build = "v1" THEN v1_discover(server, catalog_cube_pairs)
                  ELSE discover_and_setup(server, catalog_cube_pairs)
       IN  /\ catalog_cube_pairs' = res.pairs
           /\ disc' = [ called |-> TRUE, server |-> server, ret |-> res.ret ]
    /\ UNCHANGED << build, wvars, image, corevars, procs, th, ncalls, sentinel, ev, guivars,
                    cmd, log_text, nlog, cli, extravars >>

NextDisc == \E server \in Servers : Discover(server)

SpecDisc == InitDisc /\ [][NextDisc]_vars

-----------------------------------------------------------------------------
(* The command line front end: SpecCli                                     *)

\* index of the first "," in s, 0 when there is none
FindComma(s) ==
    LET hits == { i \in 1..Len(s) : s[i] = "," }
    IN  IF hits = {} THEN 0 ELSE CHOOSE i \in hits : \A j \in hits : i <= j

RECURSIVE SplitComma(_)
\* s.split(',')
SplitComma(s) ==
    LET i == FindComma(s)
    IN  IF i = 0 THEN << s >>
        ELSE << SubSeq(s, 1, i - 1) >> \o SplitComma(SubSeq(s, i + 1, Len(s)))

\* "model in pair": model occurs in pair as a contiguous part; the empty
\* text occurs in every text
IsSubstr(model, pair) ==
    \E i \in 0..(Len(pair) - Len(model)) : SubSeq(pair, i + 1, i + Len(model)) = model

\* lines 57-67 for one name: the first pair that holds it, << >> for none
FirstMatch(model, pairs) ==
    LET hits == { i \in 1..Len(pairs) : IsSubstr(model, pairs[i]) }
    IN  IF hits = {} THEN << >>
        ELSE << pairs[CHOOSE i \in hits : \A j \in hits : i <= j] >>

\* lines 53-67: --models; found is FALSE when some name matched no pair
SelectByName(models, pairs) ==
    LET names == [ i \in 1..Len(SplitComma(models)) |-> Strip(SplitComma(models)[i]) ]
        found == [ i \in 1..Len(names) |-> FirstMatch(names[i], pairs) ]
    IN  [ ok |-> \A i \in 1..Len(names) : found[i] # << >>, selected |-> Flatten(found) ]

\* what the operator types at the selection prompt: 'all', numbers, or
\* something int() rejects
SelectionAnswers ==
    { [ kind |-> "all", numbers |-> << >> ],
      [ kind |-> "numbers", numbers |-> << 1 >> ],
      [ kind |-> "numbers", numbers |-> << 2, 1 >> ],
      [ kind |-> "numbers", numbers |-> << 0, 9 >> ],
      [ kind |-> "invalid", numbers |-> << >> ] }

\* lines 77-87: the interactive selection; an index out of range is dropped
SelectByAnswer(answer, pairs) ==
    IF answer.kind = "all" THEN [ ok |-> TRUE, selected |-> pairs ]
    ELSE IF answer.kind = "invalid" THEN [ ok |-> FALSE, selected |-> << >> ]
    ELSE LET kept == SelectSeq(answer.numbers, LAMBDA n : 0 <= n - 1 /\ n - 1 < Len(pairs))
         IN  [ ok |-> TRUE, selected |-> [ i \in 1..Len(kept) |-> pairs[kept[i]] ] ]

\* what the operator types at the executor prompt: a number, or 0 for
\* something int() rejects
ExecutorAnswers == { 0, 3, Len(executors) + 1 }

\* the arguments of the command line; an option that is not given has the
\* empty text
ModelArgs ==
    { << >>,
      PairStr(Cat1, << "CubeA" >>),
      << "CubeA" >>,
      << "Nope" >>,
      << "Revenue" >>,
      << "CubeA", "," >>,
      << "CubeA", ",", " ", "Revenue", "_", "Cube" >> }

CliArgs ==
    { [ models |-> m, all_models |-> a, executor |-> e, follow |-> f ] :
        m \in ModelArgs, a \in BOOLEAN,
        e \in { "", "QueryExtractExecutor", "NoSuchExecutor" }, f \in BOOLEAN }

InitCli ==
    /\ InitCommon
    /\ build \in { "package", "archive" }
    /\ image = "present"
    /\ sentinel = FALSE
    /\ cfg = RequiredCfg

\* main.py lines 184-214: --mode cli hands the remaining arguments to
\* run_cli_mode
main(args) ==
    /\ cli.pc = "none"
    /\ cli' = [ cli EXCEPT !.pc = "discover", !.args = args ]
    /\ UNCHANGED << build, wvars, image, corevars, procs, th, ncalls, sentinel, ev, guivars,
                    cmd, log_text, nlog, catalog_cube_pairs, disc, extravars >>

\* run_cli_mode, lines 42-48: the discovery; a failed discovery and an empty
\* pair list end the run with 1
cli_discover(server) ==
    /\ cli.pc = "discover"
    /\ LET res == discover_and_setup(server, catalog_cube_pairs)
       IN  /\ catalog_cube_pairs' = res.pairs
           /\ disc' = [ called |-> TRUE, server |-> server, ret |-> res.ret ]
           /\ cli' = IF res.ret /\ res.pairs # << >>
                     THEN [ cli EXCEPT !.pc = "select" ]
                     ELSE [ cli EXCEPT !.pc = "done", !.exit = 1 ]
    /\ UNCHANGED << build, wvars, image, corevars, procs, th, ncalls, sentinel, ev, guivars,
                    cmd, log_text, nlog, extravars >>

\* lines 51-90: the selection, by --models, by --all-models or by the answer
\* to the prompt
cli_select(answer) ==
    /\ cli.pc = "select"
    /\ LET res == IF cli.args.models # << >>
                  THEN SelectByName(cli.args.models, catalog_cube_pairs)
                  ELSE IF cli.args.all_models
                  THEN [ ok |-> TRUE, selected |-> catalog_cube_pairs ]
                  ELSE SelectByAnswer(answer, catalog_cube_pairs)
       IN  cli' = IF res.ok /\ res.selected # << >>
                  THEN [ cli EXCEPT !.pc = "executor", !.selected = res.selected ]
                  ELSE [ cli EXCEPT !.pc = "done", !.exit = 1, !.invalid = TRUE ]
    /\ UNCHANGED << build, wvars, image, corevars, procs, th, ncalls, sentinel, ev, guivars,
                    cmd, log_text, nlog, catalog_cube_pairs, disc, extravars >>

\* lines 97-118: the executor, by --executor or by the answer to the prompt
cli_executor(answer) ==
    /\ cli.pc = "executor"
    /\ LET ok == IF cli.args.executor # ""
                 THEN cli.args.executor \in ExecutorSet
                 ELSE answer \in 1..Len(executors)
           exe == IF cli.args.executor # "" THEN cli.args.executor ELSE executors[answer]
       IN  cli' = IF ok
                  THEN [ cli EXCEPT !.pc = "run", !.executor = exe ]
                  ELSE [ cli EXCEPT !.pc = "done", !.exit = 1, !.invalid = TRUE ]
    /\ UNCHANGED << build, wvars, image, corevars, procs, th, ncalls, sentinel, ev, guivars,
                    cmd, log_text, nlog, catalog_cube_pairs, disc, extravars >>

\* line 128: core.run_executor(executor, selected_models, follow_logs=args.follow);
\* w is the exit code the harness would end this run with
cli_run(w) ==
    /\ cli.pc = "run"
    /\ cli' = [ cli EXCEPT !.pc = "running", !.launched = TRUE ]
    /\ ncalls' = ncalls + 1
    /\ th' = Upd("t1", [ Idle EXCEPT !.pc = "check", !.via = "cli", !.exe = cli.executor,
                                     !.sel = cli.selected, !.follow = cli.args.follow,
                                     !.will = w ])
    /\ UNCHANGED << build, wvars, image, corevars, procs, sentinel, ev, guivars,
                    cmd, log_text, nlog, catalog_cube_pairs, disc, extravars >>

\* line 129: return 0 if success else 1
cli_return ==
    /\ cli.pc = "running"
    /\ th["t1"].pc = "returned"
    /\ cli' = [ cli EXCEPT !.pc = "done", !.exit = IF th["t1"].ret = "true" THEN 0 ELSE 1 ]
    /\ UNCHANGED << build, wvars, image, corevars, procs, th, ncalls, sentinel, ev, guivars,
                    cmd, log_text, nlog, catalog_cube_pairs, disc, extravars >>

\* lines 130-132: Ctrl+C while run_executor waits for the process; the
\* "finally" of run_executor frees the slot, the process goes on
cli_interrupt ==
    /\ cli.pc = "running"
    /\ th["t1"].pc = "blocked"
    /\ is_running' = FALSE
    /\ th' = Upd("t1", [ th["t1"] EXCEPT !.pc = "interrupted", !.ret = "false" ])
    /\ cli' = [ cli EXCEPT !.pc = "done", !.exit = 1 ]
    /\ UNCHANGED << build, wvars, image, current_executor, current_process, procs, ncalls,
                    sentinel, ev, guivars, cmd, log_text, nlog, catalog_cube_pairs, disc, extravars >>

\* run_cli_mode(args)
run_cli_mode ==
    \/ \E server \in Servers : cli_discover(server)
    \/ \E answer \in SelectionAnswers : cli_select(answer)
    \/ \E answer \in ExecutorAnswers : cli_executor(answer)
    \/ \E w \in ExitCodes : cli_run(w)
    \/ cli_return
    \/ cli_interrupt

NextCli ==
    \/ \E args \in CliArgs : main(args)
    \/ run_cli_mode
    \/ run_executor("t1")
    \/ tail_logs_cli("t1")
    \/ \E p \in Pids : proc_exit(p)

SpecCli == InitCli /\ [][NextCli]_vars

-----------------------------------------------------------------------------
(* A session of the window: discovery, CSV save, runs, stop signal and the *)
(* configuration editor: SpecSession                                       *)

\* what the operator saves from the configuration editor
ConfigEdits ==
    { [ RequiredCfg EXCEPT !["host"] = << "h2" >> ],
      RequiredCfg @@ [ k \in { "aws.region" } |-> << "us-east-1" >> ] }

\* an editor whose Save also reloads the configuration of the core
EditConfigReloads(new) ==
    /\ config_json' = [ edited |-> TRUE, data |-> new ]
    /\ cfg' = new
    /\ UNCHANGED << build, props, wlast, image, corevars, procs, th, ncalls, sentinel, ev,
                    guivars, cmd, log_text, nlog, catalog_cube_pairs, disc, cli, tailvars >>

\* gui.py lines 120-148 with config_manager.py lines 59-61 and 315-321: Save
\* writes the entries to config.json
edit_config(new) ==
    /\ config_json' = [ edited |-> TRUE, data |-> new ]
    /\ UNCHANGED << build, wvars, image, corevars, procs, th, ncalls, sentinel, ev,
                    guivars, cmd, log_text, nlog, catalog_cube_pairs, disc, cli, tailvars >>

\* the servers a session discovers against: one that answers, one that fails
SessionServers ==
    { Server(Ok(Rowset("CATALOG_NAME", << Cat1 >>)), {}), Server(HttpError, {}) }

\* the assignments the CSV window hands over for a pair
CsvAssignments(pair) ==
    { [ p \in { pair } |-> BothFiles ], [ p \in { pair } |-> JdbcOnly ] }

\* csv_handler.py lines 263-270 with gui.py lines 639-649: Save of the CSV
\* window, open for a pair of the model list while no run is under way
save_configuration(pair, fa) ==
    /\ build = "package"
    /\ start_enabled
    /\ \E i \in 1..Len(catalog_cube_pairs) : catalog_cube_pairs[i] = pair
    /\ LET res == write_systems_properties_with_csv(cfg, << pair >>, fa, props)
       IN  /\ props' = res.file
           /\ wlast' = [ called |-> TRUE, sel |-> << pair >>, fa |-> fa, exc |-> res.exc,
                         again |-> FALSE ]
    /\ UNCHANGED << build, cfg, image, corevars, procs, th, ncalls, sentinel, ev, guivars,
                    cmd, log_text, nlog, catalog_cube_pairs, disc, cli, extravars >>

InitSession ==
    /\ InitCommon
    /\ build \in { "package", "archive" }
    /\ image = "present"
    /\ sentinel = FALSE
    /\ cfg = RequiredCfg

NextSession ==
    \/ \E server \in SessionServers : Discover(server)
    \/ \E pair \in Pairs : \E fa \in CsvAssignments(pair) : save_configuration(pair, fa)
    \/ \E new \in ConfigEdits : edit_config(new)
    \/ \E in \in GuiInputs : start_simulation("t1", in)
    \/ run_executor("t1")
    \/ run_simulation_background("t1")
    \/ on_simulation_complete
    \/ stop_running_simulation
    \/ stop_simulation
    \/ cancel_stop_signal
    \/ \E p \in Pids : proc_exit(p)

SpecSession == InitSession /\ [][NextSession]_vars

-----------------------------------------------------------------------------
(* The log tail of the window: SpecTail                                    *)

\* Popen.terminate() on a follow subprocess
TerminateTail(p) ==
    IF p # 0 THEN [ tailprocs EXCEPT ![p] = "terminated" ] ELSE tailprocs

NextTailPid == Cardinality({ p \in Pids : tailprocs[p] # "none" }) + 1

\* gui.py lines 652-699 with 792-828: Start Simulation as a whole.  An
\* accepted Start starts the background thread t and then start_tail_logs:
\* a follow subprocess the window still holds is terminated and the tail
\* thread of this run is started
start_simulation_and_tail(t, in) ==
    /\ start_enabled
    /\ th[t].pc = "idle"
    /\ IF gui_is_running
       THEN UNCHANGED << th, ncalls, guivars, tailvars >>
       ELSE /\ ncalls < MaxCalls
            /\ ncalls' = ncalls + 1
            /\ start_enabled' = FALSE
            /\ stop_enabled' = TRUE
            /\ gui_is_running' = TRUE
            /\ th' = Upd(t, [ Idle EXCEPT !.pc = "check", !.via = "gui", !.exe = in.exe,
                                          !.sel = in.sel, !.will = in.will ])
            /\ tailprocs' = TerminateTail(tail_process)
            /\ tail_process' = 0
            /\ tailth' = [ tailth EXCEPT ![ncalls + 1] = [ pc |-> "start", h |-> 0 ] ]
            /\ UNCHANGED afterq
    /\ UNCHANGED << build, wvars, image, corevars, procs, sentinel, ev,
                    cmd, log_text, nlog, catalog_cube_pairs, disc, cli, config_json >>

\* gui.py lines 808-813: the tail thread spawns "tail -F" and stores the
\* handle in self.tail_process
tail_popen(k) ==
    /\ tailth[k].pc = "start"
    /\ NextTailPid \in Pids
    /\ tailprocs' = [ tailprocs EXCEPT ![NextTailPid] = "alive" ]
    /\ tail_process' = NextTailPid
    /\ tailth' = [ tailth EXCEPT ![k].pc = "loop" ]
    /\ UNCHANGED << build, wvars, image, corevars, procs, th, ncalls, sentinel, ev, guivars,
                    cmd, log_text, nlog, catalog_cube_pairs, disc, cli, config_json >>

\* line 815: "while self.tail_process and self.tail_process.poll() is None
\* and self.is_running"
tail_loop(k) ==
    /\ tailth[k].pc = "loop"
    /\ tailth' = [ tailth EXCEPT ![k] =
                     IF tail_process # 0 /\ tailprocs[tail_process] = "alive" /\ gui_is_running
                     THEN [ pc |-> "read", h |-> tail_process ]
                     ELSE [ pc |-> "finally", h |-> 0 ] ]
    /\ UNCHANGED << build, wvars, image, corevars, procs, th, ncalls, sentinel, ev, guivars,
                    cmd, log_text, nlog, catalog_cube_pairs, disc, cli, config_json,
                    tail_process, tailprocs >>

\* lines 816-819: readline on self.tail_process returns a line, or the end of
\* the stream of a terminated subprocess; with self.tail_process None by now
\* the AttributeError goes to "except" and on to "finally"
tail_readline(k) ==
    /\ tailth[k].pc = "read"
    /\ tailth' = [ tailth EXCEPT ![k] =
                     IF tail_process # 0 THEN [ pc |-> "loop", h |-> tail_process ]
                     ELSE [ pc |-> "finally", h |-> 0 ] ]
    /\ UNCHANGED << build, wvars, image, corevars, procs, th, ncalls, sentinel, ev, guivars,
                    cmd, log_text, nlog, catalog_cube_pairs, disc, cli, config_json,
                    tail_process, tailprocs >>

\* lines 823-826: "finally: if self.tail_process: terminate; = None"
tail_finally(k) ==
    /\ tailth[k].pc = "finally"
    /\ tailprocs' = TerminateTail(tail_process)
    /\ tail_process' = 0
    /\ tailth' = [ tailth EXCEPT ![k].pc = "done" ]
    /\ UNCHANGED << build, wvars, image, corevars, procs, th, ncalls, sentinel, ev, guivars,
                    cmd, log_text, nlog, catalog_cube_pairs, disc, cli, config_json >>

\* the thread tail_with_system_command
tail_with_system_command(k) ==
    \/ tail_popen(k)
    \/ tail_loop(k)
    \/ tail_readline(k)
    \/ tail_finally(k)

\* gui.py lines 740-755: on_simulation_complete as a whole, from the event
\* loop; its last call is stop_tail_logs (lines 830-834)
on_simulation_complete_and_tail ==
    /\ afterq > 0
    /\ afterq' = afterq - 1
    /\ start_enabled' = TRUE
    /\ stop_enabled' = FALSE
    /\ tailprocs' = TerminateTail(tail_process)
    /\ tail_process' = 0
    /\ UNCHANGED << build, wvars, image, corevars, procs, th, ncalls, sentinel, ev,
                    gui_is_running, tailth,
                    cmd, log_text, nlog, catalog_cube_pairs, disc, cli, config_json >>

\* gui.py lines 727-738: Stop Running Simulation as a whole; it calls
\* on_simulation_complete itself, and with it stop_tail_logs
stop_running_simulation_and_tail ==
    /\ stop_enabled
    /\ ev' = [ op |-> "stop", ret |-> gui_is_running /\ current_process # 0 ]
    /\ IF gui_is_running /\ current_process # 0
       THEN /\ procs' = Terminate(current_process)
            /\ gui_is_running' = FALSE
            /\ start_enabled' = TRUE
            /\ stop_enabled' = FALSE
            /\ tailprocs' = TerminateTail(tail_process)
            /\ tail_process' = 0
            /\ UNCHANGED << afterq, tailth >>
       ELSE UNCHANGED << procs, guivars, tailvars >>
    /\ UNCHANGED << build, wvars, image, corevars, th, ncalls, sentinel,
                    cmd, log_text, nlog, catalog_cube_pairs, disc, cli, config_json >>

InitTail ==
    /\ InitCommon
    /\ build \in { "package", "archive" }
    /\ image = "present"
    /\ sentinel = FALSE
    /\ cfg = RequiredCfg

NextTail ==
    \/ \E t \in Threads, in \in GuiInputs : start_simulation_and_tail(t, in)
    \/ \E t \in Threads : run_executor(t)
    \/ \E t \in Threads : run_simulation_background(t)
    \/ \E k \in Pids : tail_with_system_command(k)
    \/ on_simulation_complete_and_tail
    \/ stop_running_simulation_and_tail
    \/ \E p \in Pids : proc_exit(p)

SpecTail == InitTail /\ [][NextTail]_vars

-----------------------------------------------------------------------------
(* Properties of run_executor                                              *)

RunState == << is_running, current_executor, current_process, procs >>

Running == { p \in Pids : procs[p].st = "running" }

\* C1: a run_executor call that finds the run slot active returns False as
\* "already running", owns no process, and leaves the active flag, the
\* executor name, the tracked process handle and the processes as they were.
C1_BusySlotRejects ==
    [][ \A t \in Threads :
          (th[t].pc = "check" /\ is_running /\ th'[t] # th[t])
            => /\ th'[t].pc = "returned"
               /\ th'[t].ret = "false"
               /\ th'[t].rejected
               /\ th'[t].pid = 0
               /\ UNCHANGED RunState ]_vars

\* C1 happens: a call was rejected while a run held the slot with its process alive
C1_Witness ==
    \E t \in Threads :
        /\ th[t].pc = "returned" /\ th[t].rejected
        /\ is_running
        /\ current_process # 0 /\ procs[current_process].st = "running"
        /\ Cardinality(Running) = 1

\* C2: under every interleaving of concurrent run_executor calls at most one
\* external process is active at a time.
C2_AtMostOneProcess == Cardinality(Running) <= 1

\* C3: run_executor returns True exactly when the process it spawned exits
\* with code 0; an accepted call with a listed executor, a non-empty
\* selection, an available image and a harness that exits 0 returns True.
C3_SuccessIffExitZero ==
    \A t \in Threads :
        th[t].pc = "returned" =>
            /\ (th[t].pid # 0 /\ procs[th[t].pid].st = "exited")
                  => (th[t].ret = "true" <=> procs[th[t].pid].code = 0)
            /\ ( /\ ~th[t].rejected
                 /\ th[t].exe \in ExecutorSet
                 /\ th[t].sel # << >>
                 /\ ImageAvailable
                 /\ th[t].will = 0 ) => th[t].ret = "true"

\* C4: a run_executor call naming an executor outside the nine listed ones is
\* rejected: it never takes the run slot and never spawns a process.
C4_UnknownExecutorRejected ==
    /\ current_executor \in ExecutorSet \cup { "None" }
    /\ \A t \in Threads :
          (th[t].pc # "idle" /\ th[t].exe \notin ExecutorSet)
            => (th[t].pc \in { "check", "returned" } /\ th[t].pid = 0)

Spawned == { p \in Pids : procs[p].st # "none" }

InRun == { "write", "image", "spawn", "wait", "blocked", "tail", "result", "finally" }

\* C25: an accepted run_executor call frees the run slot on every exit path:
\* at its return is_running is false, so the slot is never held by a call
\* that has returned and a later request is rejected only for a call that
\* is still under way; a rejected call leaves the slot as it found it.
C25_SlotReleasedOnEveryPath ==
    /\ [](is_running => \E u \in Threads : th[u].pc \in InRun)
    /\ [][ \A t \in Threads :
             /\ (th'[t].pc = "returned" /\ th[t].pc # "returned" /\ ~th'[t].rejected)
                   => ~is_running'
             /\ (th'[t].pc = "returned" /\ th[t].pc # "returned" /\ th'[t].rejected)
                   => is_running' = is_running
             /\ (th'[t].rejected /\ ~th[t].rejected)
                   => \E u \in Threads \ { t } : th[u].pc \in InRun ]_vars

\* C25 happens: a call that failed because the image is unavailable has
\* returned, the slot is free, and the next call has been accepted
C25_Witness ==
    \E t, u \in Threads :
        /\ th[t].pc = "returned" /\ ~th[t].rejected /\ th[t].pid = 0 /\ th[t].sel # << >>
        /\ image = "missing" /\ build = "archive"
        /\ th[u].pc = "write" /\ is_running

\* C26: whenever the run slot is free no process spawned by run_executor is
\* alive; run_executor with follow_logs does not return while its process
\* runs, also when the tailing is interrupted.
C26_FreeSlotMeansNoProcess ==
    /\ ~is_running => Running = {}
    /\ \A t \in Threads :
          (th[t].pc = "returned" /\ th[t].follow /\ th[t].pid # 0)
            => procs[th[t].pid].st = "exited"

-----------------------------------------------------------------------------
(* Properties of the stop button and the stop signal                       *)

\* C5: whenever the operator presses Stop while the core holds a run, a
\* terminate signal goes to a running process, also before the spawn.
C5_StopTerminatesActiveRun ==
    [][ (ev'.op = "stop" /\ ev' # ev /\ is_running)
            => \E p \in Pids : ~procs[p].sig /\ procs'[p].sig ]_vars

C7_StopSignalIsIndependent ==
    [][ /\ (sentinel' # sentinel \/ (ev' # ev /\ ev'.op \in { "requestStop", "cancelStop" }))
            => UNCHANGED << RunState, th, guivars >>
        /\ (ev' # ev /\ ev'.op = "stop") => sentinel' = sentinel
        /\ (\E p \in Pids : procs'[p].sig # procs[p].sig) => sentinel' = sentinel ]_vars

\* C7 happens: the stop signal was sent while a run held the slot with its
\* process alive
C7_Witness ==
    /\ ev.op = "requestStop" /\ sentinel
    /\ is_running /\ current_executor \in ExecutorSet
    /\ current_process # 0 /\ procs[current_process].st = "running"
    /\ ~procs[current_process].sig

\* the window's run flag is never down while the core's slot is taken
GuiFlagCoversCoreSlot == ~gui_is_running => ~is_running

\* a run started from the window is never turned away by the core
GuiStartNeverRejected == \A t \in Threads : th[t].via = "gui" => ~th[t].rejected

\* while the window has a run under way its Start button stays disabled
ActiveRunNotMarkedFinished == gui_is_running => (~start_enabled /\ stop_enabled)

\* C27: whenever AtScaleGatlingGUI.is_running is false the core's is_running
\* is false too, so a Start the window accepts is never rejected by
\* run_executor as already running, and the completion callback of an earlier
\* run never marks a later, still active run as finished.
C27_GuiFlagAgreesWithCoreSlot ==
    GuiFlagCoversCoreSlot /\ GuiStartNeverRejected /\ ActiveRunNotMarkedFinished

-----------------------------------------------------------------------------
(* Properties of the writer                                                *)

\* the catalog of a pair string, as the discovery produced it
CatalogOfPair(p) == (CHOOSE d \in Discovered : PairStr(d[1], d[2]) = p)[1]

RECURSIVE DistinctInOrder(_)
\* the distinct elements of a sequence, in order of first occurrence
DistinctInOrder(s) ==
    IF s = << >> THEN << >>
    ELSE LET r == DistinctInOrder(SubSeq(s, 1, Len(s) - 1))
             x == s[Len(s)]
         IN  IF \E i \in 1..Len(r) : r[i] = x THEN r ELSE Append(r, x)

IsModelsLine(l) == l # << >> /\ l[1] = "atscale.models="

\* C8: for every non-empty selection the written document holds exactly one
\* atscale.models= line, and it lists each distinct catalog of the selection
\* once, in order of first occurrence.
C8_ModelsLineListsDistinctCatalogs ==
    (wlast.called /\ wlast.exc = "none") =>
        LET idx == { i \in 1..Len(props.lines) : IsModelsLine(props.lines[i]) }
            cats == [ j \in 1..Len(wlast.sel) |-> CatalogOfPair(wlast.sel[j]) ]
        IN  /\ Cardinality(idx) = 1
            /\ \A i \in idx :
                 props.lines[i] = << "atscale.models=" >> \o Join(DistinctInOrder(cats), ", ")

\* C9: write() with an empty selection fails with the validation error and
\* leaves the properties file as it was: not created, truncated or modified.
C9_EmptySelectionLeavesFile ==
    [][ (wlast'.called /\ wlast'.sel = << >>)
            => (wlast'.exc = "ValueError" /\ props' = props) ]_vars

\* C9 happens: an empty selection was refused while a written file existed
C9_Witness ==
    wlast.called /\ wlast.sel = << >> /\ wlast.exc = "ValueError"
    /\ props.exists /\ props.lines # << >>

\* C11: write() called again with the selection, the configuration and the
\* file assignments unchanged leaves the same file, byte for byte, and ends
\* the same way.
C11_WriteIsIdempotent ==
    [][ wlast'.again => (props' = props /\ wlast'.exc = wlast.exc) ]_vars

\* C11 happens: a document was written and then written again
C11_Witness ==
    wlast.again /\ wlast.exc = "none" /\ props.exists /\ Len(wlast.sel) >= 2
    /\ DOMAIN wlast.fa # {}

\* the lines of a properties document by what they say
CommentHeads ==
    { "# CSV Mode - Executors will read from CSV files",
      "# Live Mode - Executors will make live JDBC/XMLA calls", "# ", "#System Parameter" }
JdbcSuffixes ==
    { ".jdbc.url=", ".jdbc.username=", ".jdbc.password=", ".jdbc.maxPoolSize=",
      ".jdbc.log.resultset.rows=" }
JdbcCsvSuffixes == { ".jdbc.setIngestionFileName=", ".jdbc.setIngestionFileHasHeader=" }
XmlaSuffixes ==
    { ".xmla.auth.url=", ".xmla.url=", ".xmla.cube=", ".xmla.catalog=",
      ".xmla.log.responsebody=", ".xmla.auth.username=", ".xmla.auth.password=" }
XmlaCsvSuffixes == { ".xmla.setIngestionFileName=", ".xmla.setIngestionFileHasHeader=" }
PairSuffixes == JdbcSuffixes \cup JdbcCsvSuffixes \cup XmlaSuffixes \cup XmlaCsvSuffixes
PostgresHeads ==
    { "atscale.postgres.jdbc.url=", "atscale.postgres.jdbc.username=",
      "atscale.postgres.jdbc.password=" }
TuningHeads ==
    { "atscale.gatling.throttle.ms=", "atscale.xmla.maxConnectionsPerHost=",
      "atscale.xmla.useAggregates=", "atscale.xmla.generateAggregates=",
      "atscale.xmla.useQueryCache=", "atscale.xmla.useAggregateCache=",
      "atscale.jdbc.useAggregates=", "atscale.jdbc.generateAggregates=",
      "atscale.jdbc.useLocalCache=" }
CloudSecretKeys == { "aws.region", "aws.secrets-key" }
ArchiveKeys ==
    { "snowflake.archive.account", "snowflake.archive.warehouse",
      "snowflake.archive.database", "snowflake.archive.schema", "snowflake.archive.role",
      "snowflake.archive.username", "snowflake.archive.password",
      "snowflake.archive.token" }

IsComment(l) == l # << >> /\ l[1] \in CommentHeads

\* where the fixed suffix of a pair line sits, 0 for any other line
SuffixAt(l) ==
    IF Len(l) < 3 \/ l[1] # "atscale." THEN 0
    ELSE LET hits == { i \in 3..Len(l) : l[i] \in PairSuffixes }
         IN  IF hits = {} THEN 0 ELSE CHOOSE i \in hits : \A j \in hits : i <= j

\* the cube key a pair line is namespaced by
KeyIn(l) == SubSeq(l, 2, SuffixAt(l) - 1)

\* the part of the document a line belongs to: 1 schema type, 2 models,
\* 3 pair block, 4 postgres, 5 tuning, 6 cloud secret, 7 warehouse archive
Section(l) ==
    CASE l = << >> -> 0
      [] l # << >> /\ l[1] = "atscale.schema.type=" -> 1
      [] l # << >> /\ l[1] = "atscale.models=" -> 2
      [] SuffixAt(l) # 0 -> 3
      [] l # << >> /\ l[1] \in PostgresHeads -> 4
      [] l # << >> /\ l[1] \in TuningHeads -> 5
      [] l # << >> /\ l[1] \in CloudSecretKeys -> 6
      [] l # << >> /\ l[1] \in ArchiveKeys -> 7
      [] OTHER -> 0

\* the part of a pair block: 1 JDBC, 2 JDBC CSV override, 3 XMLA, 4 XMLA CSV override
Part(l) ==
    LET sfx == l[SuffixAt(l)]
    IN  CASE sfx \in JdbcSuffixes -> 1
          [] sfx \in JdbcCsvSuffixes -> 2
          [] sfx \in XmlaSuffixes -> 3
          [] sfx \in XmlaCsvSuffixes -> 4

\* the document without its comment lines
Body(lines) == SelectSeq(lines, LAMBDA l : ~IsComment(l))

\* a new pair block starts at line j of b
BlockStart(b, j) ==
    /\ Section(b[j]) = 3
    /\ \/ j = 1
       \/ Section(b[j - 1]) # 3
       \/ KeyIn(b[j]) # KeyIn(b[j - 1])
       \/ Part(b[j]) < Part(b[j - 1])

\* the number of the pair block line j of b lies in
BlockOf(b, j) == Cardinality({ k \in 1..j : BlockStart(b, k) })

\* the cube of a pair string, as the discovery produced it, and its key
CubeOfPair(p) == (CHOOSE d \in Discovered : PairStr(d[1], d[2]) = p)[2]
CubeKeyOf(p) == [ i \in 1..Len(CubeOfPair(p)) |->
                    IF CubeOfPair(p)[i] = " " THEN "_" ELSE CubeOfPair(p)[i] ]

\* C12: the lines of a written document come in a fixed order: the schema
\* type, the models line, one block per selected pair in selection order
\* (JDBC, JDBC CSV override, XMLA, XMLA CSV override), the postgres block,
\* the tuning constants, the cloud-secret lines, the warehouse-archive lines.
C12_FixedLineOrder ==
    (wlast.called /\ wlast.exc = "none") =>
        LET b == Body(props.lines)
            n == Len(b)
        IN  /\ n >= 2 /\ Section(b[1]) = 1 /\ Section(b[2]) = 2
            /\ \A j \in 1..n : Section(b[j]) \in 1..7
            /\ \A j \in 1..(n - 1) : Section(b[j]) <= Section(b[j + 1])
            /\ \A j \in 3..n : Section(b[j]) >= 3
            /\ \A j \in 1..n : Section(b[j]) = 3 =>
                  /\ BlockOf(b, j) <= Len(wlast.sel)
                  /\ KeyIn(b[j]) = CubeKeyOf(wlast.sel[BlockOf(b, j)])
            /\ \A i \in 1..Len(wlast.sel) :
                  /\ \E j \in 1..n : Section(b[j]) = 3 /\ BlockOf(b, j) = i /\ Part(b[j]) = 1
                  /\ \E j \in 1..n : Section(b[j]) = 3 /\ BlockOf(b, j) = i /\ Part(b[j]) = 3
            /\ \E j \in 1..n : Section(b[j]) = 4
            /\ \E j \in 1..n : Section(b[j]) = 5

\* C12 happens: a document with two pair blocks, CSV overrides and both
\* optional blocks was written
C12_Witness ==
    /\ wlast.called /\ wlast.exc = "none"
    /\ Len(wlast.sel) = 2 /\ wlast.sel[1] # wlast.sel[2]
    /\ \A i \in 1..2 : wlast.sel[i] \in DOMAIN wlast.fa
    /\ \E i \in 1..Len(props.lines) : Section(props.lines[i]) = 6
    /\ \E i \in 1..Len(props.lines) : Section(props.lines[i]) = 7

\* a catalog name as it stands in a JDBC URL: every space is %20
CatalogInUrl(p) == [ i \in 1..Len(CatalogOfPair(p)) |->
                       IF CatalogOfPair(p)[i] = " " THEN "%20" ELSE CatalogOfPair(p)[i] ]

HasLine(l) == \E i \in 1..Len(props.lines) : props.lines[i] = l

\* C13: for every selected pair the written document holds, under the cube
\* name with spaces as underscores, the JDBC URL of the host with the catalog
\* (spaces as %20) and the XMLA URL of the host with the token; it holds the
\* shared postgres URL of postgres_host; for Cat1 :: CubeA with h, t, pg these
\* are the lines of the end-to-end scenario.
C13_PairUrlLines ==
    (wlast.called /\ wlast.exc = "none") =>
        /\ \A i \in 1..Len(wlast.sel) :
              LET p == wlast.sel[i]
              IN  /\ HasLine(<< "atscale." >> \o CubeKeyOf(p)
                             \o << ".jdbc.url=", "jdbc:postgresql://" >> \o cfg["host"]
                             \o << ":15432/" >> \o CatalogInUrl(p))
                  /\ HasLine(<< "atscale." >> \o CubeKeyOf(p)
                             \o << ".xmla.url=", "https://" >> \o cfg["host"]
                             \o << ":10502/xmla/default/" >> \o cfg["token"])
        /\ HasLine(<< "atscale.postgres.jdbc.url=", "jdbc:postgresql://" >>
                     \o cfg["postgres_host"] \o << ":10520/atscale" >>)
        /\ \A j \in 1..Len(props.lines) :
              Section(props.lines[j]) = 3 => \A k \in 1..Len(KeyIn(props.lines[j])) :
                                                KeyIn(props.lines[j])[k] # " "
        /\ wlast.sel = << Cat1CubeA >> =>
              /\ HasLine(<< "atscale.models=", "Cat1" >>)
              /\ HasLine(<< "atscale.", "CubeA", ".jdbc.url=", "jdbc:postgresql://", "h",
                            ":15432/", "Cat1" >>)
              /\ HasLine(<< "atscale.", "CubeA", ".xmla.url=", "https://", "h",
                            ":10502/xmla/default/", "t" >>)
              /\ HasLine(<< "atscale.postgres.jdbc.url=", "jdbc:postgresql://", "pg",
                            ":10520/atscale" >>)

\* C13 happens: a pair with a space in its cube and one with a space in its
\* catalog were written
C13_Witness ==
    /\ wlast.called /\ wlast.exc = "none"
    /\ \E i \in 1..Len(wlast.sel) : \E k \in 1..Len(CubeOfPair(wlast.sel[i])) :
          CubeOfPair(wlast.sel[i])[k] = " "
    /\ \E i \in 1..Len(wlast.sel) : \E k \in 1..Len(CatalogOfPair(wlast.sel[i])) :
          CatalogOfPair(wlast.sel[i])[k] = " "

\* the lines of pair block i of b that belong to part q
BlockLines(b, i, q) ==
    { b[j] : j \in { k \in 1..Len(b) :
                       Section(b[k]) = 3 /\ BlockOf(b, k) = i /\ Part(b[k]) = q } }

\* the two override lines of a protocol ("jdbc" or "xmla") for an assigned
\* file, none when no file is assigned
OverrideLines(key, proto, file, has_header) ==
    IF file = << >> THEN {}
    ELSE { << "atscale." >> \o key \o << proto \o ".setIngestionFileName=" >> \o file,
           << "atscale." >> \o key \o << proto \o ".setIngestionFileHasHeader=" >>
               \o << IF has_header THEN "true" ELSE "false" >> }

\* C14: with file assignments the schema type line reads ingestion instead
\* of installer, and the JDBC (XMLA) part of a pair's block holds the lines
\* setIngestionFileName=<file> and setIngestionFileHasHeader=<true|false>
\* exactly when a JDBC (XMLA) file is assigned to that pair.
C14_CsvOverrideLines ==
    (wlast.called /\ wlast.exc = "none") =>
        LET b  == Body(props.lines)
            fa == wlast.fa
        IN  /\ b[1] = << "atscale.schema.type=",
                         IF DOMAIN fa # {} THEN "ingestion" ELSE "installer" >>
            /\ \A i \in 1..Len(wlast.sel) :
                  LET p == wlast.sel[i]
                  IN  IF p \in DOMAIN fa
                      THEN /\ BlockLines(b, i, 2) =
                                OverrideLines(CubeKeyOf(p), ".jdbc", fa[p].jdbc_file,
                                              fa[p].jdbc_has_header)
                           /\ BlockLines(b, i, 4) =
                                OverrideLines(CubeKeyOf(p), ".xmla", fa[p].xmla_file,
                                              fa[p].xmla_has_header)
                      ELSE BlockLines(b, i, 2) = {} /\ BlockLines(b, i, 4) = {}

\* C14 happens: of two selected pairs the first has a JDBC file only and the
\* second has no assignment
C14_Witness ==
    /\ wlast.called /\ wlast.exc = "none"
    /\ Len(wlast.sel) = 2
    /\ DOMAIN wlast.fa = { wlast.sel[1] } /\ wlast.sel[2] # wlast.sel[1]
    /\ wlast.fa[wlast.sel[1]].jdbc_file # << >>
    /\ wlast.fa[wlast.sel[1]].xmla_file = << >>
    /\ HasLine(<< "atscale.schema.type=", "ingestion" >>)

\* C15: an optional line (aws.region, aws.secrets-key, snowflake.archive.*)
\* is in the document only if the configuration value that triggers it is
\* present and non-empty; with every optional value empty or absent write()
\* succeeds and the document ends with the tuning constants.
C15_OptionalLinesOnlyWhenSet ==
    (wlast.called /\ wlast.sel # << >>) =>
        /\ \A j \in 1..Len(props.lines) :
              Section(props.lines[j]) \in { 6, 7 } => Truthy(cfg, props.lines[j][1])
        /\ (\A k \in CloudSecretKeys \cup ArchiveKeys : ~Truthy(cfg, k)) =>
              /\ wlast.exc = "none"
              /\ props.lines # << >>
              /\ props.lines[Len(props.lines)] = << "atscale.jdbc.useLocalCache=", "false" >>

\* C15 happens: a document was written with every optional key present and empty
C15_Witness ==
    /\ wlast.called /\ wlast.sel # << >> /\ wlast.exc = "none"
    /\ \A k \in CloudSecretKeys \cup ArchiveKeys : HasKey(cfg, k) /\ ~Truthy(cfg, k)
    /\ props.lines[Len(props.lines)] = << "atscale.jdbc.useLocalCache=", "false" >>

\* a document is complete when it runs to the end: the closing tuning line is
\* there, and so is a line for every optional key that is set
IsCompleteDocument(lines, c) ==
    /\ \E i \in 1..Len(lines) : lines[i] = << "atscale.jdbc.useLocalCache=", "false" >>
    /\ \A n \in 1..Len(OptionalKeys) :
         Truthy(c, OptionalKeys[n]) =>
            \E i \in 1..Len(lines) :
                Len(lines[i]) >= 2 /\ lines[i][1] = OptionalKeys[n] /\ lines[i][2] = "="

\* C10: whether write() returns or fails, the properties file is never a
\* partial document.
C10_NeverPartialDocument == props.exists => IsCompleteDocument(props.lines, cfg)

\* C30: every optional line "k=v" of a written document carries the value the
\* configuration stores under k, and no configuration that sets only some of
\* the optional keys makes the write fail.
C30_OptionalLineCarriesItsOwnValue ==
    (wlast.called /\ wlast.sel # << >>) =>
        /\ wlast.exc = "none"
        /\ \A j \in 1..Len(props.lines) :
              Section(props.lines[j]) \in { 6, 7 } =>
                  /\ HasKey(cfg, props.lines[j][1])
                  /\ props.lines[j] = << props.lines[j][1], "=" >> \o cfg[props.lines[j][1]]

\* the property key of a line: what stands before its "="
KeyOfLine(l) == IF SuffixAt(l) # 0 THEN SubSeq(l, 1, SuffixAt(l)) ELSE << l[1] >>

\* C29: for a selection of pairwise distinct pairs no property key occurs
\* twice in the written document, also when two pairs have the same cube
\* name in different catalogs or cube names that differ by space/underscore.
C29_NoDuplicateKeys ==
    (wlast.called /\ wlast.sel # << >>
        /\ \A i, j \in 1..Len(wlast.sel) : i # j => wlast.sel[i] # wlast.sel[j])
      => LET b == Body(props.lines)
         IN  \A i, j \in 1..Len(b) : i # j => KeyOfLine(b[i]) # KeyOfLine(b[j])

-----------------------------------------------------------------------------
(* Properties of the session                                               *)

\* C21: the configuration of the core is read once at construction and never
\* changes afterwards: no discovery, write, launch or stop-signal operation
\* and no Save of the configuration editor changes cfg.
C21_ConfigNeverMutated == [][cfg' = cfg]_vars

\* C21 happens: the editor has saved another configuration to config.json
\* after a discovery, a write, a run and a stop signal of the session
C21_Witness ==
    /\ config_json.edited /\ config_json.data # cfg
    /\ disc.called /\ wlast.called /\ ncalls > 0 /\ sentinel
    /\ th["t1"].pc = "returned"

\* a CSV document is on disk: the last Save of the CSV window succeeded
CsvSaved == wlast.called /\ DOMAIN wlast.fa # {} /\ wlast.exc = "none"

-----------------------------------------------------------------------------
(* Properties of the log tail                                              *)

\* the window is at rest: no run under way, no completion callback queued,
\* every tail thread that was started has ended
TailAtRest ==
    /\ ~gui_is_running
    /\ afterq = 0
    /\ \A t \in Threads : th[t].pc = "idle"
    /\ \A k \in Pids : tailth[k].pc \in { "none", "done" }

\* C23: the tail loop ends and cleans up: once the run has completed or was
\* stopped the follow subprocess is terminated, so that no follow subprocess
\* stays alive after its run has ended, under every interleaving of the tail
\* thread with run completion and stop.
C23_NoTailOutlivesItsRun ==
    TailAtRest => \A p \in Pids : tailprocs[p] # "alive"

-----------------------------------------------------------------------------
(* Properties of the invocation                                            *)

ProxyVarNames == { "HTTP_PROXY", "HTTPS_PROXY", "http_proxy", "https_proxy" }

EnvNames(c) == { c.env[i].name : i \in 1..Len(c.env) }

\* C16: the invocation carries a proxy environment variable only when the
\* executor is one of the two warehouse-archive executors and proxy host and
\* proxy port are both configured non-empty.
C16_ProxyOnlyForArchiveExecutors ==
    (cmd.built /\ EnvNames(cmd) \cap ProxyVarNames # {}) =>
        /\ cmd.exe \in ArchiveExecutors
        /\ Truthy(cfg, "proxy")
        /\ Truthy(cfg, "proxyport")

-----------------------------------------------------------------------------
(* Properties of the log display                                           *)

\* C17: the log display never holds more than 1000 lines, and what it holds
\* are the most recently appended lines in the order they were appended.
C17_DisplayKeepsLastLines ==
    /\ Len(log_text) <= 1000
    /\ Len(log_text) = IF nlog < 1000 THEN nlog ELSE 1000
    /\ \A i \in 1..Len(log_text) : log_text[i] = nlog - Len(log_text) + i

\* C17 happens: more lines were appended than the display keeps
C17_Witness == nlog > 1000 /\ Len(log_text) = 1000 /\ log_text[1] = nlog - 999

-----------------------------------------------------------------------------
(* Properties of the discovery                                             *)

\* the catalog names a well-formed catalog answer carries, in order
CatalogNamesIn(resp) ==
    LET idx == { i \in 1..Len(resp.body) : resp.body[i].tag = "CATALOG_NAME" }
        nth(k) == CHOOSE i \in idx : Cardinality({ j \in idx : j <= i }) = k
    IN  [ k \in 1..Cardinality(idx) |-> resp.body[nth(k)].text ]

\* C18: a well-formed answer with zero CATALOG_NAME elements gives the empty
\* catalog list, and the discovery does not report a failure for it.
C18_NoCatalogsIsNoFailure ==
    (disc.called /\ disc.server.catalogs.status = "ok"
        /\ CatalogNamesIn(disc.server.catalogs) = << >>)
      => (parse_catalogs(disc.server.catalogs) = << >> /\ disc.ret)

\* what a discovery that skips failed catalogs produces
PairsSkippingFailed(server) ==
    LET cats == CatalogNamesIn(server.catalogs)
    IN  Flatten([ i \in 1..Len(cats) |->
            IF cats[i] \in server.failing THEN << >>
            ELSE [ k \in 1..Len(CubesOf(cats[i])) |-> PairStr(cats[i], CubesOf(cats[i])[k]) ] ])

\* C19: when the cube lookup of one catalog fails, the discovery goes on:
\* that catalog gives no pairs and the pairs of every other catalog, before
\* and after it, are produced and offered.
C19_FailedCatalogIsSkipped ==
    (disc.called /\ disc.server.catalogs.status = "ok"
        /\ PairsSkippingFailed(disc.server) # << >>)
      => (disc.ret /\ catalog_cube_pairs = PairsSkippingFailed(disc.server))

\* the pairs of every catalog the server lists, in catalog then cube order
AllPairsOf(server) ==
    LET cats == CatalogNamesIn(server.catalogs)
    IN  Flatten([ i \in 1..Len(cats) |->
            [ k \in 1..Len(CubesOf(cats[i])) |-> PairStr(cats[i], CubesOf(cats[i])[k]) ] ])

\* the catalog query or a cube query of the discovery fails
SomeQueryFails(server) ==
    \/ server.catalogs.status # "ok"
    \/ \E i \in 1..Len(CatalogNamesIn(server.catalogs)) :
          CatalogNamesIn(server.catalogs)[i] \in server.failing

\* C24: discover_and_setup is all-or-nothing for the stored pair list: when
\* the catalog query or any cube query fails it reports failure and leaves
\* catalog_cube_pairs as it was before the call; on success the stored list
\* is the pairs of all catalogs in catalog order, then cube order.
C24_DiscoveryAllOrNothing ==
    [][ (build # "v1" /\ disc'.called /\ disc' # disc) =>
          /\ SomeQueryFails(disc'.server) => ~disc'.ret
          /\ ~disc'.ret => catalog_cube_pairs' = catalog_cube_pairs
          /\ disc'.ret => catalog_cube_pairs' = AllPairsOf(disc'.server) ]_vars

\* C24 happens: a discovery that got the first catalog's cubes failed on the
\* second catalog, and the list of an earlier discovery is still stored
C24_Witness ==
    /\ build # "v1" /\ disc.called /\ ~disc.ret
    /\ disc.server.catalogs.status = "ok"
    /\ Len(CatalogNamesIn(disc.server.catalogs)) = 2
    /\ CatalogNamesIn(disc.server.catalogs)[2] \in disc.server.failing
    /\ CatalogNamesIn(disc.server.catalogs)[1] \notin disc.server.failing
    /\ catalog_cube_pairs = << PairStr(Cat1, << "CubeA" >>),
                               PairStr(Cat1, << "Revenue", " ", "Cube" >>) >>

-----------------------------------------------------------------------------
(* Properties of the command line front end                                *)

\* the names --models gives, as the code reads them
NamesGiven ==
    IF cli.args.models = << >> THEN << >>
    ELSE [ i \in 1..Len(SplitComma(cli.args.models)) |-> Strip(SplitComma(cli.args.models)[i]) ]

\* a name is known when it is a discovered pair, or the catalog or the cube
\* of one
IsKnownModel(name) ==
    \E i \in 1..Len(catalog_cube_pairs) :
        LET parts == Split(catalog_cube_pairs[i])
        IN  \/ name = catalog_cube_pairs[i]
            \/ name = Strip(parts[1])
            \/ name = Strip(parts[2])

UnknownModelName == \E i \in 1..Len(NamesGiven) : ~IsKnownModel(NamesGiven[i])

UnknownExecutor == cli.args.executor # "" /\ cli.args.executor \notin ExecutorSet

\* the run has passed the discovery
CliDiscovered == cli.pc \notin { "none", "discover" }

\* the validations that failed, as far as the run has come
ValidationFailed ==
    /\ CliDiscovered
    /\ \/ ~disc.ret
       \/ catalog_cube_pairs = << >>
       \/ UnknownModelName
       \/ cli.invalid
       \/ (cli.pc \in { "run", "running", "done" } /\ UnknownExecutor)

\* the exit code is 0 exactly when discovery, selection and executor choice
\* passed and run_executor returned True, and 1 otherwise
CliExitCodeFollowsRun ==
    cli.pc = "done"
      => /\ cli.exit \in { 0, 1 }
         /\ cli.exit = 0 <=> (disc.ret /\ catalog_cube_pairs # << >> /\ ~cli.invalid
                                /\ cli.launched /\ th["t1"].ret = "true")

\* a failed selection or executor choice starts nothing
CliInvalidNeverLaunches ==
    (CliDiscovered /\ (~disc.ret \/ catalog_cube_pairs = << >> \/ cli.invalid \/ UnknownExecutor))
      => ~cli.launched

\* C20: the command line run ends with exit code 0 exactly when discovery,
\* model selection, executor selection and the execution all succeed, and
\* with 1 otherwise; when a validation fails (no pairs, an unknown model
\* name, an empty selection, an unknown executor) run_executor is not called.
C20_CliExitCodeAndNoLaunch ==
    /\ CliExitCodeFollowsRun
    /\ ValidationFailed => ~cli.launched

=============================================================================
